---- MODULE Spec2Model ----
(***************************************************************************)
(* A model of the poker engine of src/poker.py (class PokerTable): seating, *)
(* start_game / post_blinds, the betting-round machine of player_action,    *)
(* street advancement and determine_winner.                                 *)
(*                                                                          *)
(* Conventions.                                                             *)
(*  - Seat indices (dealer_position, current_player) are the 0-based list   *)
(*    indices of the Python code; seat k is players[k + 1] here.            *)
(*  - Cards are counted, not named: a player's `cards`, the table's         *)
(*    `community_cards` and the `deck` are the numbers of cards held.  The  *)
(*    shuffle decides the showdown; it is the input `strength`, one hand    *)
(*    value (the (hand_rank, tiebreakers) tuple, totally ordered) per seat. *)
(*  - A Python exception that leaves a handler is the result "raised"; the  *)
(*    assignments made before it stay.                                      *)
(*  - The store calls of determine_winner (user_tokens, save_user_tokens)   *)
(*    write the persistent chip store, not the table; they are not part of  *)
(*    the table state modelled here.                                        *)
(*                                                                          *)
(* Specifications.  Spec plays one hand at a table of up to three, with     *)
(* players leaving at any time.  SpecRematch plays several hands at a table *)
(* of two through the lobby buttons, Start Game included while a hand runs. *)
(* SpecDeck deals a hand card by card from a named deck (class Deck).       *)
(* SpecEval applies HandEvaluator.evaluate_hand to hands of 5 to 7 cards.   *)
(* SpecLedger makes the calls of the chip ledger of src/token_manager.py    *)
(* (class TokenManager); SpecControlled is SpecLedger without the grants.   *)
(* SpecStore runs several TokenManager objects over one chips file.         *)
(* SpecTables seats players at the BlackjackTable objects of src/main.py.   *)
(* SpecButton plays several hands of folds at a table of three whose        *)
(* players come and go between hands.  SpecBets runs the bjbet handlers of  *)
(* src/blackjack_cog.py on one betting round, interleaved at their awaits.  *)
(* Each specification leaves the variables of the others unchanged.         *)
(***************************************************************************)
EXTENDS Integers, Sequences, FiniteSets, TLC

(* ------------------------------ bounds --------------------------------- *)
MaxPlayers == 3        \* ids that ever try to sit down
MaxBuyIn == 4          \* largest stack brought to the table
MaxHands == 1          \* hands started
MaxSeatChanges == 3    \* add_player / remove_player calls that change the table
MaxAmount == 5         \* largest amount typed with a raise
NumStrengths == 2      \* distinct showdown hand values

(* ------------------------- program constants --------------------------- *)
MaxSeats == 9
DeckSize == 52
\* PokerTable(..., small_blind, big_blind): the table's blinds (10 and 20 by
\* default), here in units of the small blind.
small_blind == 1
big_blind == 2

Ids == 1..MaxPlayers
StartChips == {1, MaxBuyIn}
Amounts == (0 - 1)..MaxAmount
Actions == {"fold", "call", "raise", "check", "bet"}
Betting == {"preflop", "flop", "turn", "river"}

VARIABLES players, deck, community_cards, pot, current_bet, dealer_position,
          current_player, state, game_active,
          payout, chips_before, hands, seat_changes, last,
          cards, hole_cards, board, burned, deal_error,
          all_cards, hand_value,
          data, granted, ledger_last,
          managers, file, reference, store_last,
          table_players, player_to_table, table_last,
          table_state, bettors, dealer_cards, handler, game_starts

tableVars == <<players, deck, community_cards, pot, current_bet,
               dealer_position, current_player, state, game_active>>
pokerVars == <<players, deck, community_cards, pot, current_bet,
               dealer_position, current_player, state, game_active, payout,
               chips_before, hands, seat_changes, last>>
\* The named cards of one table's Deck and where they were dealt.
dealVars == <<cards, hole_cards, board, burned, deal_error>>
\* The argument and the result of HandEvaluator.evaluate_hand.
evalVars == <<all_cards, hand_value>>
\* TokenManager.data and what was asked of it.
ledgerVars == <<data, granted, ledger_last>>
\* The TokenManager objects of the process, the chips file they share, and
\* what was asked of them.
storeVars == <<managers, file, reference, store_last>>
\* The BlackjackTable objects of src/main.py and the map player_to_table.
seatVars == <<table_players, player_to_table, table_last>>
\* One betting round of a blackjack table of src/blackjack_cog.py and the
\* bjbet handlers running on it.
betVars == <<table_state, bettors, dealer_cards, handler, game_starts>>

vars == <<players, deck, community_cards, pot, current_bet, dealer_position,
          current_player, state, game_active, payout, chips_before, hands,
          seat_changes, last, cards, hole_cards, board, burned, deal_error,
          all_cards, hand_value, data, granted, ledger_last,
          managers, file, reference, store_last,
          table_players, player_to_table, table_last,
          table_state, bettors, dealer_cards, handler, game_starts>>

(* ------------------------------ helpers -------------------------------- *)
RECURSIVE SumSeq(_)
SumSeq(s) == IF s = <<>> THEN 0 ELSE Head(s) + SumSeq(Tail(s))

Min(a, b) == IF a < b THEN a ELSE b

Seats(ps) == 1..Len(ps)
Chips(ps) == [i \in Seats(ps) |-> ps[i].chips]
TotalBets(ps) == [i \in Seats(ps) |-> ps[i].total_bet]
SumChips(ps) == SumSeq(Chips(ps))
NoPayout == [kind |-> "none", amounts |-> <<>>]

Player(uid, c) ==
  [user_id |-> uid, chips |-> c, current_bet |-> 0, total_bet |-> 0,
   cards |-> 0, folded |-> FALSE, all_in |-> FALSE, acted |-> FALSE]

\* The table as one value: the handlers below are functions on it.
Tbl ==
  [players |-> players, deck |-> deck, community_cards |-> community_cards,
   pot |-> pot, current_bet |-> current_bet,
   dealer_position |-> dealer_position, current_player |-> current_player,
   state |-> state, game_active |-> game_active,
   payout |-> payout, exc |-> FALSE]

Commit(t) ==
  /\ players' = t.players
  /\ deck' = t.deck
  /\ community_cards' = t.community_cards
  /\ pot' = t.pot
  /\ current_bet' = t.current_bet
  /\ dealer_position' = t.dealer_position
  /\ current_player' = t.current_player
  /\ state' = t.state
  /\ game_active' = t.game_active
  /\ payout' = t.payout

\* The last call made on the table and what it returned: the arguments of a
\* call that was carried out, the reason of one that was refused.
Call(op, id, action, amount, result, msg) ==
  [op |-> op, id |-> id, action |-> action, amount |-> amount,
   result |-> result, msg |-> msg]

(* ------------------------------- Init ---------------------------------- *)
InitTable ==
  /\ players = <<>>
  /\ deck = DeckSize
  /\ community_cards = 0
  /\ pot = 0
  /\ current_bet = 0
  /\ dealer_position = 0
  /\ current_player = 0
  /\ state = "waiting"
  /\ game_active = FALSE
  /\ payout = NoPayout
  /\ chips_before = 0
  /\ hands = 0
  /\ seat_changes = 0
  /\ last = Call("init", 0, "-", 0, "ok", "")

\* Nothing dealt from a named deck, nothing evaluated, no ledger opened.
NoDeal ==
  /\ cards = <<>> /\ hole_cards = <<>> /\ board = <<>> /\ burned = <<>>
  /\ deal_error = FALSE
NoEvaluation == all_cards = {} /\ hand_value = <<>>
NoLedger == data = <<>> /\ granted = 0 /\ ledger_last = <<>>
NoStore ==
  managers = <<>> /\ file = <<>> /\ reference = <<>> /\ store_last = <<>>
NoBlackjack ==
  /\ table_players = <<>> /\ player_to_table = <<>> /\ table_last = <<>>
  /\ table_state = "" /\ bettors = <<>> /\ dealer_cards = 0
  /\ handler = <<>> /\ game_starts = 0
Init == InitTable /\ NoDeal /\ NoEvaluation /\ NoLedger /\ NoStore /\ NoBlackjack

(* ----------------------------- add_player ------------------------------ *)
add_player_ok(t, uid) ==
  ~(Len(t.players) >= MaxSeats \/ \E i \in Seats(t.players) : t.players[i].user_id = uid)

add_player(t, uid, c) ==
  IF add_player_ok(t, uid)
  THEN [t EXCEPT !.players = Append(@, Player(uid, c))]
  ELSE t

\* Ids carry no meaning beyond equality: the next id to sit down is the least
\* one not seated; an id already seated may ask again (and is refused).
Joiners(ps) ==
  {uid \in Ids : \/ \E i \in Seats(ps) : ps[i].user_id = uid
                 \/ \A v \in Ids : (\A i \in Seats(ps) : ps[i].user_id # v) => uid <= v}

AddPlayer ==
  \E uid \in Joiners(players), c \in StartChips :
    /\ add_player_ok(Tbl, uid) => seat_changes < MaxSeatChanges
    /\ seat_changes' = IF add_player_ok(Tbl, uid) THEN seat_changes + 1 ELSE seat_changes
    /\ Commit(add_player(Tbl, uid, c))
    /\ chips_before' = IF add_player_ok(Tbl, uid) THEN chips_before + c ELSE chips_before
    /\ hands' = hands
    /\ last' = IF add_player_ok(Tbl, uid)
               THEN Call("add_player", uid, "-", c, "ok", "")
               ELSE Call("add_player", 0, "-", 0, "rejected", "")
    /\ UNCHANGED <<dealVars, evalVars, ledgerVars, storeVars, seatVars, betVars>>

(* ---------------------------- remove_player ---------------------------- *)
Seated(t, uid) == \E i \in Seats(t.players) : t.players[i].user_id = uid

\* The first seat holding uid (the loop of lines 220-223 returns at the first match).
SeatOf(t, uid) ==
  CHOOSE i \in Seats(t.players) :
    /\ t.players[i].user_id = uid
    /\ \A j \in 1..(i - 1) : t.players[j].user_id # uid

remove_player_ok(t, uid) == t.game_active => Seated(t, uid)

remove_player(t, uid) ==
  IF t.game_active
  THEN IF Seated(t, uid)
       THEN [t EXCEPT !.players[SeatOf(t, uid)].folded = TRUE]
       ELSE t
  ELSE [t EXCEPT !.players = SelectSeq(@, LAMBDA p : p.user_id # uid)]

(* --------------------------- determine_winner --------------------------- *)
Active(ps) == {i \in Seats(ps) : ~ps[i].folded}
CanAct(p) == ~p.folded /\ ~p.all_in /\ p.chips > 0

\* evaluate_hand on a player's hole cards plus the board: (0, []) for fewer
\* than 5 cards, else the value the shuffle gave the seat.
HandValue(t, strength, i) ==
  IF t.players[i].cards + t.community_cards < 5 THEN 0 ELSE strength[i]

\* Fault: the hand is over but the button stays where it is.
end_hand_keeps_button(t) ==
  [t EXCEPT !.state = "ended", !.game_active = FALSE]

\* Lines 532-536: the hand is over, the button moves on.
end_hand(t) ==
  [t EXCEPT !.state = "ended", !.game_active = FALSE,
            !.dealer_position = (@ + 1) % Len(t.players)]

\* Line 524: the share of each winner.
winnings_per_player(p, nwinners) == p \div nwinners

determine_winner(t, strength) ==
  LET ps == t.players
      active == Active(ps)
  IN IF Cardinality(active) = 1
     THEN LET w == CHOOSE i \in active : TRUE
          IN end_hand([t EXCEPT !.players[w].chips = @ + t.pot,
                                !.pot = 0,
                                !.payout = [kind |-> "fold",
                                            amounts |-> [i \in Seats(ps) |->
                                                          IF i = w THEN t.pot ELSE 0]]])
     ELSE IF active = {}
     THEN [t EXCEPT !.exc = TRUE]     \* player_hands[0] on an empty list
     ELSE LET best == CHOOSE v \in {HandValue(t, strength, i) : i \in active} :
                        \A i \in active : HandValue(t, strength, i) <= v
              winners == {i \in active : HandValue(t, strength, i) = best}
              share == winnings_per_player(t.pot, Cardinality(winners))
          IN end_hand([t EXCEPT
                 !.players = [i \in Seats(ps) |->
                                IF i \in winners
                                THEN [ps[i] EXCEPT !.chips = @ + share]
                                ELSE ps[i]],
                 !.pot = 0,
                 !.payout = [kind |-> "showdown",
                             amounts |-> [i \in Seats(ps) |->
                                           IF i \in winners THEN share ELSE 0]]])

(* -------------------------- advance_game_state -------------------------- *)
\* Fault: on the river a card is burnt but none is dealt to the board.
deal_street_no_river_card(t) ==
  IF t.state = "preflop"
  THEN [t EXCEPT !.deck = @ - 4, !.community_cards = @ + 3, !.state = "flop"]
  ELSE IF t.state = "flop"
  THEN [t EXCEPT !.deck = @ - 2, !.community_cards = @ + 1, !.state = "turn"]
  ELSE IF t.state = "turn"
  THEN [t EXCEPT !.deck = @ - 1, !.state = "river"]
  ELSE t

\* Lines 444-461: burn one card and deal the street.
deal_street(t) ==
  IF t.state = "preflop"
  THEN [t EXCEPT !.deck = @ - 4, !.community_cards = @ + 3, !.state = "flop"]
  ELSE IF t.state = "flop"
  THEN [t EXCEPT !.deck = @ - 2, !.community_cards = @ + 1, !.state = "turn"]
  ELSE IF t.state = "turn"
  THEN [t EXCEPT !.deck = @ - 2, !.community_cards = @ + 1, !.state = "river"]
  ELSE t

\* Lines 474-489: the first seat after the dealer that can act opens the
\* street; with nobody able to act the hand goes to showdown.
first_to_act(t, strength) ==
  LET n == Len(t.players)
      start == (t.dealer_position + 1) % n
      K == {k \in 0..(n - 1) : CanAct(t.players[((start + k) % n) + 1])}
  IN IF K # {}
     THEN LET k == CHOOSE x \in K : \A y \in K : x <= y
          IN [t EXCEPT !.current_player = (start + k) % n]
     ELSE determine_winner([t EXCEPT !.current_player = start,
                                     !.state = "showdown"], strength)

RECURSIVE advance_game_state(_, _)
advance_game_state(t, strength) ==
  LET active == Active(t.players)
  IN IF Cardinality(active) <= 1
     THEN determine_winner([t EXCEPT !.state = "showdown"], strength)
     ELSE LET r == [t EXCEPT
                      !.players = [i \in Seats(t.players) |->
                                     [t.players[i] EXCEPT !.current_bet = 0,
                                                          !.acted = FALSE]],
                      !.current_bet = 0]
              all_in_situation ==
                Cardinality({i \in active : t.players[i].chips > 0}) <= 1
          IN IF r.state = "river"
             THEN determine_winner([r EXCEPT !.state = "showdown"], strength)
             ELSE IF r.state \notin {"preflop", "flop", "turn"}
             THEN (IF all_in_situation
                   THEN [r EXCEPT !.exc = TRUE]    \* recursion without end
                   ELSE first_to_act(r, strength))
             ELSE IF all_in_situation
             THEN advance_game_state(deal_street(r), strength)
             ELSE first_to_act(deal_street(r), strength)

(* ------------------------ advance_to_next_player ------------------------ *)
advance_to_next_player(t, strength) ==
  LET ps == t.players
      n == Len(ps)
      active == Active(ps)
      start_pos == t.current_player
      K == {k \in 1..n : CanAct(ps[((start_pos + k) % n) + 1])}
  IN IF Cardinality(active) <= 1
     THEN advance_game_state(t, strength)
     ELSE IF {i \in active : ~ps[i].all_in /\ ps[i].chips > 0} = {}
     THEN advance_game_state(t, strength)
     ELSE IF K # {}
     THEN LET k == CHOOSE x \in K : \A y \in K : x <= y
          IN [t EXCEPT !.current_player = (start_pos + k) % n]
     ELSE advance_game_state(t, strength)

(* ----------------------- is_betting_round_complete ---------------------- *)
MaxBet(ps, S) ==
  CHOOSE v \in {ps[i].current_bet : i \in S} : \A i \in S : ps[i].current_bet <= v

\* Fault: the round is complete as soon as the bets are matched, whether or
\* not everybody has acted.
is_betting_round_complete_bets_only(t) ==
  LET ps == t.players
      active == Active(ps)
      players_who_can_act == {i \in active : ~ps[i].all_in /\ ps[i].chips > 0}
  IN IF Cardinality(active) <= 1 THEN TRUE
     ELSE \A i \in players_who_can_act :
            ~(ps[i].current_bet < MaxBet(ps, active))

is_betting_round_complete(t) ==
  LET ps == t.players
      active == Active(ps)
      players_who_can_act == {i \in active : ~ps[i].all_in /\ ps[i].chips > 0}
  IN IF Cardinality(active) <= 1 THEN TRUE
     ELSE IF players_who_can_act = {} THEN TRUE
     ELSE IF Cardinality(players_who_can_act) = 1
             /\ \A i \in players_who_can_act : ps[i].acted
     THEN TRUE
     ELSE \A i \in players_who_can_act :
            ps[i].acted /\ ~(ps[i].current_bet < MaxBet(ps, active))

(* ------------------------------ post_blinds ----------------------------- *)
sb_pos(t) ==
  IF Len(t.players) = 2 THEN t.dealer_position
  ELSE (t.dealer_position + 1) % Len(t.players)

bb_pos(t) ==
  IF Len(t.players) = 2 THEN (t.dealer_position + 1) % Len(t.players)
  ELSE (t.dealer_position + 2) % Len(t.players)

\* One blind of lines 273-277 / 280-284: seat k (0-based) posts min(blind, stack).
post_blind(t, k, blind) ==
  LET amount == Min(blind, t.players[k + 1].chips)
  IN [t EXCEPT !.players[k + 1].chips = @ - amount,
               !.players[k + 1].current_bet = amount,
               !.players[k + 1].total_bet = amount,
               !.pot = @ + amount]

post_blinds(t) ==
  IF sb_pos(t) >= Len(t.players)
  THEN [t EXCEPT !.exc = TRUE]        \* self.players[sb_pos]: list index out of range
  ELSE LET a == post_blind(t, sb_pos(t), small_blind)
           b == post_blind(a, bb_pos(t), big_blind)
       IN [b EXCEPT !.current_bet = b.players[bb_pos(t) + 1].current_bet]

(* ------------------------------ start_game ------------------------------ *)
\* Fault: one round of hole cards is dealt instead of two.
reset_hand_one_hole_card(t) ==
  [t EXCEPT !.game_active = TRUE,
            !.deck = DeckSize - Len(t.players),
            !.community_cards = 0,
            !.pot = 0,
            !.current_bet = 0,
            !.payout = NoPayout,
            !.players = [i \in Seats(t.players) |->
                           [t.players[i] EXCEPT !.cards = 1, !.current_bet = 0,
                                                !.total_bet = 0, !.folded = FALSE,
                                                !.all_in = FALSE, !.acted = FALSE]]]

\* Lines 234-254: the per-hand reset and the deal of the hole cards.
reset_hand(t) ==
  [t EXCEPT !.game_active = TRUE,
            !.deck = DeckSize - 2 * Len(t.players),
            !.community_cards = 0,
            !.pot = 0,
            !.current_bet = 0,
            !.payout = NoPayout,
            !.players = [i \in Seats(t.players) |->
                           [t.players[i] EXCEPT !.cards = 2, !.current_bet = 0,
                                                !.total_bet = 0, !.folded = FALSE,
                                                !.all_in = FALSE, !.acted = FALSE]]]

start_game_ok(t) == ~(Len(t.players) < 2)

start_game(t) ==
  IF ~start_game_ok(t) THEN t
  ELSE LET b == post_blinds(reset_hand(t))
       IN IF b.exc THEN b
          ELSE [b EXCEPT !.state = "preflop",
                         !.current_player = (t.dealer_position + 3) % Len(t.players)]

(* ----------------------------- player_action ---------------------------- *)
no_active_game(t) == ~t.game_active \/ t.state = "ended"

\* Fault: the turn test takes any seated id for the player to act.
is_turn_any_seat(t, uid) ==
  \E i \in Seats(t.players) : t.players[i].user_id = uid

is_turn(t, uid) == t.players[t.current_player + 1].user_id = uid

cannot_act(t) ==
  t.players[t.current_player + 1].folded \/ t.players[t.current_player + 1].all_in

\* Fault: a fold marks the player as having acted but not as folded.
act_fold_keeps_hand(t, i) == [t EXCEPT !.players[i].acted = TRUE]

\* Lines 302-304.
act_fold(t, i) ==
  [t EXCEPT !.players[i].folded = TRUE, !.players[i].acted = TRUE]

\* Fault: the call is not capped by the caller's stack.
call_amount_uncapped(t, i) == t.current_bet - t.players[i].current_bet

\* Line 307.
call_amount(t, i) ==
  Min(t.current_bet - t.players[i].current_bet, t.players[i].chips)

\* Fault: the call is not added to the caller's total_bet.
act_call_no_total(t, i) ==
  LET x == call_amount(t, i)
      a == [t EXCEPT !.players[i].chips = @ - x,
                     !.players[i].current_bet = @ + x,
                     !.players[i].acted = TRUE,
                     !.pot = @ + x]
  IN IF a.players[i].chips = 0 THEN [a EXCEPT !.players[i].all_in = TRUE] ELSE a

\* Lines 306-315.
act_call(t, i) ==
  LET x == call_amount(t, i)
      a == [t EXCEPT !.players[i].chips = @ - x,
                     !.players[i].current_bet = @ + x,
                     !.players[i].total_bet = @ + x,
                     !.players[i].acted = TRUE,
                     !.pot = @ + x]
  IN IF a.players[i].chips = 0 THEN [a EXCEPT !.players[i].all_in = TRUE] ELSE a

\* Line 319.
min_raise(t, i) == t.current_bet * 2 - t.players[i].current_bet

\* Line 322: the raise is refused.
raise_too_small(t, i, amount) == amount < min_raise(t, i)

\* Line 342, read after line 338 has stored the raiser's bet in the table.
is_real_raise(t, i) == t.players[i].current_bet > t.current_bet

\* Lines 343-345.
reset_acted(t, i) ==
  [t EXCEPT !.players = [j \in Seats(t.players) |->
      IF t.players[j].user_id # t.players[i].user_id
         /\ ~t.players[j].folded /\ ~t.players[j].all_in
      THEN [t.players[j] EXCEPT !.acted = FALSE]
      ELSE t.players[j]]]

\* Lines 325-348, for an amount that passed line 322.
act_raise(t, i, amount) ==
  LET p == t.players[i]
      max_raise == p.chips + p.current_bet
      capped == IF amount > max_raise THEN max_raise ELSE amount
      more == capped - p.current_bet
      additional_amount == IF more > p.chips THEN p.chips ELSE more
      a == [t EXCEPT !.players[i].chips = @ - additional_amount,
                     !.players[i].current_bet = @ + additional_amount,
                     !.players[i].total_bet = @ + additional_amount,
                     !.players[i].acted = TRUE,
                     !.pot = @ + additional_amount,
                     !.current_bet = p.current_bet + additional_amount]
      b == IF is_real_raise(a, i) THEN reset_acted(a, i) ELSE a
  IN IF b.players[i].chips = 0 THEN [b EXCEPT !.players[i].all_in = TRUE] ELSE b

\* Line 351: the check is refused.
cannot_check(t, i) == t.players[i].current_bet < t.current_bet

\* Line 353.
act_check(t, i) == [t EXCEPT !.players[i].acted = TRUE]

\* The reason player_action returns with False, "" when it accepts the call
\* (lines 292-300, 322-323, 351-352, 355-356).
refusal(t, uid, action, amount) ==
  IF no_active_game(t) THEN "No active game"
  ELSE IF ~is_turn(t, uid) THEN "Not your turn"
  ELSE IF cannot_act(t) THEN "You cannot act (folded/all-in)"
  ELSE IF action = "raise" /\ raise_too_small(t, t.current_player + 1, amount)
       THEN "Minimum raise"
  ELSE IF action = "check" /\ cannot_check(t, t.current_player + 1)
       THEN "Cannot check, must call or fold"
  ELSE IF action \notin {"fold", "call", "raise", "check"} THEN "Invalid action"
  ELSE ""

\* The table after the branch of the accepted action, before line 358.
apply_action(t, action, amount) ==
  LET i == t.current_player + 1
  IN IF action = "fold" THEN act_fold(t, i)
     ELSE IF action = "call" THEN act_call(t, i)
     ELSE IF action = "raise" THEN act_raise(t, i, amount)
     ELSE act_check(t, i)

\* Lines 358-362.
close_or_pass(t, strength) ==
  IF is_betting_round_complete(t)
  THEN advance_game_state(t, strength)
  ELSE advance_to_next_player(t, strength)

\* Fault: a check marks the player as having acted before it is validated.
player_action_check_first(t, uid, action, amount, strength) ==
  IF refusal(t, uid, action, amount) = "Cannot check, must call or fold"
  THEN act_check(t, t.current_player + 1)
  ELSE IF refusal(t, uid, action, amount) # ""
  THEN t
  ELSE close_or_pass(apply_action(t, action, amount), strength)

player_action(t, uid, action, amount, strength) ==
  IF refusal(t, uid, action, amount) # ""
  THEN t
  ELSE close_or_pass(apply_action(t, action, amount), strength)

(* ------------------------------- actions -------------------------------- *)
StartGame ==
  /\ hands < MaxHands
  /\ LET r == start_game(Tbl)
     IN /\ Commit(r)
        /\ hands' = IF start_game_ok(Tbl) THEN hands + 1 ELSE hands
        /\ seat_changes' = seat_changes
        /\ chips_before' = IF start_game_ok(Tbl) THEN SumChips(players)
                           ELSE chips_before
        /\ last' = Call("start_game", 0, "-", 0,
                        IF ~start_game_ok(Tbl) THEN "rejected"
                        ELSE IF r.exc THEN "raised" ELSE "ok", "")
  /\ UNCHANGED <<dealVars, evalVars, ledgerVars, storeVars, seatVars, betVars>>

RemovePlayer ==
  \E uid \in Ids :
    /\ remove_player(Tbl, uid) # Tbl => seat_changes < MaxSeatChanges
    /\ seat_changes' = IF remove_player(Tbl, uid) # Tbl THEN seat_changes + 1
                       ELSE seat_changes
    /\ Commit(remove_player(Tbl, uid))
    /\ hands' = hands
    /\ chips_before' = IF ~game_active /\ Seated(Tbl, uid)
                       THEN chips_before - players[SeatOf(Tbl, uid)].chips
                       ELSE chips_before
    /\ last' = IF remove_player_ok(Tbl, uid)
               THEN Call("remove_player", uid, "-", 0, "ok", "")
               ELSE Call("remove_player", 0, "-", 0, "rejected", "")
    /\ UNCHANGED <<dealVars, evalVars, ledgerVars, storeVars, seatVars, betVars>>

\* The hand values the shuffle may have dealt; they are read only when the
\* call reaches a showdown.
Strengths(t, uid, action, amount) ==
  LET ones == [i \in Seats(t.players) |-> 1]
  IN IF player_action(t, uid, action, amount, ones).payout.kind = "showdown"
        /\ t.payout.kind # "showdown"
     THEN [Seats(t.players) -> 1..NumStrengths]
     ELSE {ones}

PlayerAction ==
  \E uid \in Ids, action \in Actions, amount \in Amounts :
  \E strength \in Strengths(Tbl, uid, action, amount) :
    /\ action # "raise" => amount = 0
    /\ LET r == player_action(Tbl, uid, action, amount, strength)
           why == refusal(Tbl, uid, action, amount)
       IN /\ Commit(r)
          /\ last' = IF why # ""
                     THEN Call("player_action", 0, "-", 0, "rejected", why)
                     ELSE Call("player_action", uid, action, amount,
                               IF r.exc THEN "raised" ELSE "ok", "")
    /\ UNCHANGED <<hands, seat_changes, chips_before>>
    /\ UNCHANGED <<dealVars, evalVars, ledgerVars, storeVars, seatVars, betVars>>

(* ---------------- the table played hand after hand ---------------------- *)
\* The same handlers, driven by the lobby buttons of one small table that
\* stays open over several hands: the Start Game button is not disabled while
\* a hand is played, players join at any time and leave between hands.
RematchPlayers == 2    \* ids that ever try to sit down at this table
RematchHands == 3      \* hands started at this table

RematchIds == 1..RematchPlayers

join_table ==
  \E uid \in Joiners(players) \cap RematchIds, c \in StartChips :
    /\ add_player_ok(Tbl, uid) => seat_changes < MaxSeatChanges
    /\ seat_changes' = IF add_player_ok(Tbl, uid) THEN seat_changes + 1 ELSE seat_changes
    /\ Commit(add_player(Tbl, uid, c))
    /\ chips_before' = IF add_player_ok(Tbl, uid) THEN chips_before + c ELSE chips_before
    /\ hands' = hands
    /\ last' = IF add_player_ok(Tbl, uid)
               THEN Call("add_player", uid, "-", c, "ok", "")
               ELSE Call("add_player", 0, "-", 0, "rejected", "")
    /\ UNCHANGED <<dealVars, evalVars, ledgerVars, storeVars, seatVars, betVars>>

leave_table ==
  \E uid \in RematchIds :
    /\ ~game_active
    /\ remove_player(Tbl, uid) # Tbl => seat_changes < MaxSeatChanges
    /\ seat_changes' = IF remove_player(Tbl, uid) # Tbl THEN seat_changes + 1
                       ELSE seat_changes
    /\ Commit(remove_player(Tbl, uid))
    /\ hands' = hands
    /\ chips_before' = IF Seated(Tbl, uid)
                       THEN chips_before - players[SeatOf(Tbl, uid)].chips
                       ELSE chips_before
    /\ last' = Call("remove_player", uid, "-", 0, "ok", "")
    /\ UNCHANGED <<dealVars, evalVars, ledgerVars, storeVars, seatVars, betVars>>

start_game_button ==
  /\ hands < RematchHands
  /\ LET r == start_game(Tbl)
     IN /\ Commit(r)
        /\ hands' = IF start_game_ok(Tbl) THEN hands + 1 ELSE hands
        /\ seat_changes' = seat_changes
        /\ chips_before' = IF start_game_ok(Tbl) THEN SumChips(players)
                           ELSE chips_before
        /\ last' = Call("start_game", 0, "-", 0,
                        IF ~start_game_ok(Tbl) THEN "rejected"
                        ELSE IF r.exc THEN "raised" ELSE "ok", "")
  /\ UNCHANGED <<dealVars, evalVars, ledgerVars, storeVars, seatVars, betVars>>

handle_player_action ==
  \E uid \in RematchIds, action \in Actions, amount \in Amounts :
  \E strength \in Strengths(Tbl, uid, action, amount) :
    /\ action # "raise" => amount = 0
    /\ LET r == player_action(Tbl, uid, action, amount, strength)
           why == refusal(Tbl, uid, action, amount)
       IN /\ Commit(r)
          /\ last' = IF why # ""
                     THEN Call("player_action", 0, "-", 0, "rejected", why)
                     ELSE Call("player_action", uid, action, amount,
                               IF r.exc THEN "raised" ELSE "ok", "")
    /\ UNCHANGED <<hands, seat_changes, chips_before>>
    /\ UNCHANGED <<dealVars, evalVars, ledgerVars, storeVars, seatVars, betVars>>


(* ------------- the dealer button while players come and go -------------- *)
\* The same handlers at a table of three that is played for several hands:
\* players sit down and leave between hands (remove_player with no hand
\* running takes the seat out of the list), a hand is started by the !start
\* command, which refuses while a hand runs (poker.py:1060), and is played
\* with folds only, so that it ends after one betting round.
ButtonPlayers == 3     \* ids that ever try to sit down at this table
ButtonHands == 3       \* hands started at this table
ButtonSeatChanges == 4 \* seats taken or left at this table

ButtonIds == 1..ButtonPlayers

ButtonJoin ==
  \E uid \in Joiners(players) \cap ButtonIds :
    /\ ~game_active
    /\ add_player_ok(Tbl, uid)
    /\ seat_changes < ButtonSeatChanges
    /\ seat_changes' = seat_changes + 1
    /\ Commit(add_player(Tbl, uid, MaxBuyIn))
    /\ chips_before' = chips_before + MaxBuyIn
    /\ hands' = hands
    /\ last' = Call("add_player", uid, "-", MaxBuyIn, "ok", "")
    /\ UNCHANGED <<dealVars, evalVars, ledgerVars, storeVars, seatVars, betVars>>

ButtonLeave ==
  \E uid \in ButtonIds :
    /\ ~game_active
    /\ Seated(Tbl, uid)
    /\ seat_changes < ButtonSeatChanges
    /\ seat_changes' = seat_changes + 1
    /\ Commit(remove_player(Tbl, uid))
    /\ hands' = hands
    /\ chips_before' = chips_before - players[SeatOf(Tbl, uid)].chips
    /\ last' = Call("remove_player", uid, "-", 0, "ok", "")
    /\ UNCHANGED <<dealVars, evalVars, ledgerVars, storeVars, seatVars, betVars>>

ButtonStart ==
  /\ ~game_active
  /\ hands < ButtonHands
  /\ LET r == start_game(Tbl)
     IN /\ Commit(r)
        /\ hands' = IF start_game_ok(Tbl) THEN hands + 1 ELSE hands
        /\ seat_changes' = seat_changes
        /\ chips_before' = IF start_game_ok(Tbl) THEN SumChips(players)
                           ELSE chips_before
        /\ last' = Call("start_game", 0, "-", 0,
                        IF ~start_game_ok(Tbl) THEN "rejected"
                        ELSE IF r.exc THEN "raised" ELSE "ok", "")
  /\ UNCHANGED <<dealVars, evalVars, ledgerVars, storeVars, seatVars, betVars>>

ButtonFold ==
  \E uid \in ButtonIds :
    /\ refusal(Tbl, uid, "fold", 0) = ""
    /\ LET r == player_action(Tbl, uid, "fold", 0,
                              [i \in Seats(players) |-> 1])
       IN /\ Commit(r)
          /\ last' = Call("player_action", uid, "fold", 0,
                          IF r.exc THEN "raised" ELSE "ok", "")
    /\ UNCHANGED <<hands, seat_changes, chips_before>>
    /\ UNCHANGED <<dealVars, evalVars, ledgerVars, storeVars, seatVars, betVars>>


(* ------------------------- the deck, card by card ----------------------- *)
\* Deck (lines 68-78) with named cards, and the deals made from it by
\* start_game (lines 250-254) and advance_game_state (lines 444-461).  The
\* betting decides only when the next street is dealt, so it is left out.
NumShuffles == 5       \* orders random.shuffle may leave the deck in

Ranks == 2..14
Suits == <<"hearts", "diamonds", "clubs", "spades">>
Card(rank, suit) == [rank |-> rank, suit |-> suit]

\* Line 74: [Card(rank, suit) for rank in Rank for suit in Suit].
FullDeck ==
  [k \in 1..(13 * Len(Suits)) |->
     Card(2 + ((k - 1) \div Len(Suits)), Suits[((k - 1) % Len(Suits)) + 1])]

\* Line 75: the shuffle, here one of the first cuts of the sorted deck.
Shuffles ==
  {[k \in 1..Len(FullDeck) |-> FullDeck[((k - 1 + c) % Len(FullDeck)) + 1]] :
     c \in 0..(NumShuffles - 1)}

\* A deck being dealt from: the cards left, the cards dealt so far in order,
\* and whether pop() was called on an empty list.
\* Fault: deal returns the top card without taking it off the deck.
deal_keeps_card(d) ==
  IF d.cards = <<>> THEN [d EXCEPT !.err = TRUE]
  ELSE [d EXCEPT !.out = Append(@, d.cards[Len(d.cards)])]

\* Lines 77-78.
deal(d) ==
  IF d.cards = <<>> THEN [d EXCEPT !.err = TRUE]
  ELSE [d EXCEPT !.cards = SubSeq(@, 1, Len(@) - 1),
                 !.out = Append(@, d.cards[Len(d.cards)])]

RECURSIVE deal_n(_, _)
deal_n(d, k) == IF k = 0 THEN d ELSE deal_n(deal(d), k - 1)

\* start_game at a table of n: reset the deck, deal two rounds of hole cards.
DeckStartGame ==
  \E n \in 2..MaxSeats, shuffled \in Shuffles :
    LET d == deal_n([cards |-> shuffled, out |-> <<>>, err |-> FALSE], 2 * n)
    IN /\ cards' = d.cards
       /\ hole_cards' = [i \in 1..n |->
                           IF Len(d.out) >= n + i THEN <<d.out[i], d.out[n + i]>>
                           ELSE <<>>]
       /\ board' = <<>>
       /\ burned' = <<>>
       /\ deal_error' = d.err
       /\ UNCHANGED <<pokerVars, evalVars, ledgerVars, storeVars, seatVars, betVars>>

\* advance_game_state: burn one card, then the flop (3 cards), the turn or
\* the river (1 card each).
DeckDealStreet ==
  /\ hole_cards # <<>> /\ Len(board) < 5
  /\ LET k == IF Len(board) = 0 THEN 3 ELSE 1
         d == deal_n([cards |-> cards, out |-> <<>>, err |-> deal_error], 1 + k)
     IN /\ cards' = d.cards
        /\ burned' = IF Len(d.out) >= 1 THEN Append(burned, d.out[1]) ELSE burned
        /\ board' = board \o (IF Len(d.out) = 1 + k THEN SubSeq(d.out, 2, 1 + k)
                              ELSE <<>>)
        /\ deal_error' = d.err
        /\ UNCHANGED hole_cards
  /\ UNCHANGED <<pokerVars, evalVars, ledgerVars, storeVars, seatVars, betVars>>


(* ----------------------------- evaluate_hand ---------------------------- *)
\* HandEvaluator.evaluate_hand, lines 82-151 (the stray class header of lines
\* 97-101 set aside), on a set of distinct cards.  A hand value is the pair
\* <<hand_rank, tiebreakers>>.
RankSet(cs) == {c.rank : c \in cs}

\* Lines 93-95.
rank_count(cs, r) == Cardinality({c \in cs : c.rank = r})

\* Lines 104-107.
suit_count(cs, s) == Cardinality({c \in cs : c.suit = s})
is_flush(cs) == \E c \in cs : suit_count(cs, c.suit) >= 5

\* sorted(..., reverse=True) on a set of numbers.
RECURSIVE SortDesc(_)
SortDesc(S) ==
  IF S = {} THEN <<>>
  ELSE LET m == CHOOSE x \in S : \A y \in S : y <= x
       IN <<m>> \o SortDesc(S \ {m})

\* Line 110.
unique_ranks(cs) == SortDesc(RankSet(cs))

\* Lines 115-119: the first window of five unique ranks that spans 4.
regular_straights(cs) ==
  LET u == unique_ranks(cs)
  IN {i \in 1..(Len(u) - 4) : u[i] - u[i + 4] = 4}

\* Line 122.
is_wheel(cs) == {14, 5, 4, 3, 2} \subseteq RankSet(cs)

is_straight(cs) == regular_straights(cs) # {} \/ is_wheel(cs)

\* Fault: the wheel is ranked by its ace.
straight_high_ace_wheel(cs) ==
  LET u == unique_ranks(cs)
      I == regular_straights(cs)
  IN IF I # {} THEN u[CHOOSE i \in I : \A j \in I : i <= j]
     ELSE 14

\* Lines 118 and 124.
straight_high(cs) ==
  LET u == unique_ranks(cs)
      I == regular_straights(cs)
  IN IF I # {} THEN u[CHOOSE i \in I : \A j \in I : i <= j]
     ELSE 5

\* Line 127: the ranks, most frequent first, higher rank first among equals.
RECURSIVE SortCounts(_, _)
SortCounts(cs, R) ==
  IF R = {} THEN <<>>
  ELSE LET m == CHOOSE x \in R : \A y \in R :
                  \/ rank_count(cs, y) < rank_count(cs, x)
                  \/ rank_count(cs, y) = rank_count(cs, x) /\ y <= x
       IN <<m>> \o SortCounts(cs, R \ {m})

counts(cs) == SortCounts(cs, RankSet(cs))

\* s[a:b] of Python, 0-based and clipped to the list.
Slice(s, a, b) == SubSeq(s, a + 1, Min(b, Len(s)))

\* Line 137: the ranks of the cards of the flush suit, highest first.
flush_cards(cs) ==
  Slice(SortDesc({c.rank : c \in {x \in cs : suit_count(cs, x.suit) >= 5}}), 0, 5)

evaluate_hand(cs) ==
  IF Cardinality(cs) < 5 THEN <<0, <<>>>>
  ELSE LET k == counts(cs)
           n(i) == rank_count(cs, k[i])
       IN IF is_straight(cs) /\ is_flush(cs) THEN <<8, <<straight_high(cs)>>>>
          ELSE IF n(1) = 4 THEN <<7, <<k[1], k[2]>>>>
          ELSE IF n(1) = 3 /\ n(2) = 2 THEN <<6, <<k[1], k[2]>>>>
          ELSE IF is_flush(cs) THEN <<5, flush_cards(cs)>>
          ELSE IF is_straight(cs) THEN <<4, <<straight_high(cs)>>>>
          ELSE IF n(1) = 3 THEN <<3, <<k[1]>> \o Slice(k, 1, 3)>>
          ELSE IF n(1) = 2 /\ n(2) = 2
               THEN <<2, <<IF k[1] > k[2] THEN k[1] ELSE k[2],
                           IF k[1] > k[2] THEN k[2] ELSE k[1], k[3]>>>>
          ELSE IF n(1) = 2 THEN <<1, <<k[1]>> \o Slice(k, 1, 4)>>
          ELSE <<0, Slice(unique_ranks(cs), 0, 5)>>

\* Python's list comparison a > b.
RECURSIVE ListGreater(_, _)
ListGreater(a, b) ==
  IF a = <<>> THEN FALSE
  ELSE IF b = <<>> THEN TRUE
  ELSE IF Head(a) # Head(b) THEN Head(a) > Head(b)
  ELSE ListGreater(Tail(a), Tail(b))

\* Line 184: the test that replaces the best hand found so far.
Beats(v, w) == v[1] > w[1] \/ (v[1] = w[1] /\ ListGreater(v[2], w[2]))

\* Lines 170-189: the value of the hand get_best_hand selects.
combinations(cs, k) == {h \in SUBSET cs : Cardinality(h) = k}

best_hand_value(cs) ==
  IF Cardinality(cs) <= 5 THEN evaluate_hand(cs)
  ELSE LET V == {evaluate_hand(h) : h \in combinations(cs, 5)}
       IN CHOOSE v \in V : \A w \in V : ~Beats(w, v)

\* The hands put to the evaluator: 5 to 7 cards of the low end of the deck
\* with the ace, in the first suits.
MaxEvalRank == 6       \* ranks 2..MaxEvalRank and the ace
NumEvalSuits == 3      \* suits the hands are drawn from

EvalDeck ==
  {Card(r, Suits[s]) : r \in (2..MaxEvalRank) \cup {14}, s \in 1..NumEvalSuits}

InitEval ==
  /\ InitTable /\ NoDeal /\ NoLedger /\ NoStore /\ NoBlackjack
  /\ all_cards \in {h \in SUBSET EvalDeck : Cardinality(h) \in 5..7}
  /\ hand_value = <<>>

Evaluate ==
  /\ hand_value = <<>>
  /\ hand_value' = evaluate_hand(all_cards)
  /\ UNCHANGED <<all_cards, pokerVars, dealVars, ledgerVars, storeVars, seatVars, betVars>>


(* ------------------------------ the ledger ------------------------------ *)
\* src/token_manager.py, class TokenManager.  `data` is the dictionary
\* self.data: account id -> {chips, loan}, holding the accounts created so
\* far; an id that is not yet a key is created by get_user_data with the
\* default stake on first access.  Amounts are in chips, as in the code.
\* Every method is an operator from the dictionary to the new dictionary and
\* the method's result (`ok`, and for add_chips the message it returns);
\* `granted` adds up the amounts of add_chips
\* calls without a source, and `ledger_last` records the last call.

MAX_LOAN == 5000
CASINO_POOL_ID == "casino_pool"
INITIAL_POOL_BALANCE == 1000000
default_chips == 1000
None == ""

NumLedgerUsers == 2    \* user accounts that ever touch the ledger
MaxLedgerOps == 3      \* ledger calls made
LedgerUsers == <<"user1", "user2", "user3">>
Users == {LedgerUsers[i] : i \in 1..Min(NumLedgerUsers, Len(LedgerUsers))}
Accounts == Users \cup {CASINO_POOL_ID}
\* amounts passed to the methods: negative, zero, small, the loan ceiling,
\* and the whole pool
LedgerAmounts == {-1000, 0, 500, 1000, MAX_LOAN, INITIAL_POOL_BALANCE}

LedgerCall(n, op, user, other, amount, ok, message) ==
  [n |-> n, op |-> op, user |-> user, other |-> other, amount |-> amount,
   ok |-> ok, message |-> message]

\* __init__ with an empty store: _load_data returns {} and
\* _ensure_casino_pool creates the pool account.
InitLedger ==
  /\ data = [a \in {CASINO_POOL_ID} |-> [chips |-> INITIAL_POOL_BALANCE, loan |-> 0]]
  /\ granted = 0
  /\ ledger_last = LedgerCall(0, "init", None, None, 0, TRUE, None)

\* _get_user_data: the dictionary after the lookup.
get_user_data(d, user_id) ==
  IF user_id \in DOMAIN d THEN d
  ELSE [a \in DOMAIN d \cup {user_id} |->
          IF a = user_id THEN [chips |-> default_chips, loan |-> 0] ELSE d[a]]

get_chips(d, user_id) == get_user_data(d, user_id)[user_id].chips
get_loan(d, user_id) == get_user_data(d, user_id)[user_id].loan
get_pool_balance(d) == get_chips(d, CASINO_POOL_ID)

remove_chips(d, user_id, amount, destination_id) ==
  LET d1 == get_user_data(d, user_id) IN
  IF d1[user_id].chips < amount THEN [data |-> d1, ok |-> FALSE]
  ELSE LET d2 == get_user_data(d1, destination_id)
           d3 == [d2 EXCEPT ![user_id].chips = @ - amount]
       IN [data |-> [d3 EXCEPT ![destination_id].chips = @ + amount],
           ok |-> TRUE]

\* Fault: the repayment is not capped at the loan.
repayment_amount_uncapped(amount, loan) == amount
repayment_amount(amount, loan) == Min(amount, loan)

repay_loan(d, user_id, amount) ==
  LET d1 == get_user_data(d, user_id)
      loan == d1[user_id].loan
  IN IF loan <= 0 THEN [data |-> d1, ok |-> FALSE]
     ELSE IF amount > d1[user_id].chips THEN [data |-> d1, ok |-> FALSE]
     ELSE LET r == repayment_amount(amount, loan)
              d2 == remove_chips(d1, user_id, r, CASINO_POOL_ID).data
          IN [data |-> [d2 EXCEPT ![user_id].loan = @ - r], ok |-> TRUE]

\* chips >= loan * 1.1, the product being a binary floating-point number:
\* for the loans of float_above it is just above the exact 110%, so a balance
\* of exactly 110% is below it (1500 * 1.1 is 1650.0000000000002).  The table
\* holds the multiples of 500 up to 12000, the loans the amounts above make.
float_above == {1500, 3000, 3500, 5500, 6000, 6500, 7000, 10500, 11000,
                11500, 12000}
reaches_threshold(chips, loan) ==
  IF loan \in float_above THEN chips * 10 > loan * 11
  ELSE chips * 10 >= loan * 11

\* The message is "repaid" for "Your loan of ... has been automatically
\* repaid!".
check_loan_repayment(d, user_id) ==
  LET d1 == get_user_data(d, user_id)
      loan == d1[user_id].loan
  IN IF loan <= 0 THEN [data |-> d1, message |-> None]
     ELSE IF reaches_threshold(d1[user_id].chips, loan)
          THEN [data |-> repay_loan(d1, user_id, loan).data,
                message |-> "repaid"]
          ELSE [data |-> d1, message |-> None]

\* Fault: the source is debited without the test of its balance.
source_short_never(d, source_id, amount) == FALSE
source_short(d, source_id, amount) == d[source_id].chips < amount

\* Fault: the source keeps the chips it hands over.
debit_source_skipped(d, source_id, amount) == d
debit_source(d, source_id, amount) ==
  [d EXCEPT ![source_id].chips = @ - amount]

\* `ok` is FALSE for the message "Source has insufficient chips.".
add_chips(d, user_id, amount, source_id) ==
  LET d1 == IF source_id # None THEN get_user_data(d, source_id) ELSE d IN
  IF source_id # None /\ source_short(d1, source_id, amount)
  THEN [data |-> d1, ok |-> FALSE, message |-> "insufficient"]
  ELSE LET d2 == IF source_id # None
                 THEN debit_source(d1, source_id, amount) ELSE d1
           d3 == get_user_data(d2, user_id)
           d4 == [d3 EXCEPT ![user_id].chips = @ + amount]
           c == check_loan_repayment(d4, user_id)
       IN [data |-> c.data, ok |-> TRUE, message |-> c.message]

grant_loan(d, user_id, amount) ==
  IF amount <= 0 THEN [data |-> d, ok |-> FALSE]
  ELSE LET d1 == get_user_data(d, user_id)
           current_loan == d1[user_id].loan
           pool_balance == get_pool_balance(d1)
       IN IF \/ amount > pool_balance
             \/ current_loan >= MAX_LOAN
             \/ current_loan + amount > MAX_LOAN
          THEN [data |-> d1, ok |-> FALSE]
          ELSE LET d2 == add_chips(d1, user_id, amount, CASINO_POOL_ID).data
               IN [data |-> [d2 EXCEPT ![user_id].loan = @ + amount],
                   ok |-> TRUE]

\* One ledger call: the dictionary and the record of the call.
LedgerStep(r, message, op, user, other, amount) ==
  /\ ledger_last.n < MaxLedgerOps
  /\ data' = r.data
  /\ ledger_last' =
       LedgerCall(ledger_last.n + 1, op, user, other, amount, r.ok, message)
  /\ UNCHANGED <<pokerVars, dealVars, evalVars, storeVars, seatVars, betVars>>

\* add_chips(user_id, amount, source_id=...): a game pays out of the pool, or
\* any transfer between two accounts.
AddChips ==
  \E user_id \in Accounts, source_id \in Accounts, amount \in LedgerAmounts :
    /\ user_id # source_id
    /\ LET r == add_chips(data, user_id, amount, source_id) IN
         LedgerStep(r, r.message, "add_chips", user_id, source_id, amount)
    /\ UNCHANGED granted

\* add_chips(user_id, amount): chip_cog's grant command, poker_cog's rake.
GrantChips ==
  \E user_id \in Accounts, amount \in LedgerAmounts :
    /\ LET r == add_chips(data, user_id, amount, None) IN
         LedgerStep(r, r.message, "grant", user_id, None, amount)
    /\ granted' = granted + amount

RemoveChips ==
  \E user_id \in Accounts, destination_id \in Accounts, amount \in LedgerAmounts :
    /\ user_id # destination_id
    /\ LedgerStep(remove_chips(data, user_id, amount, destination_id),
                  None, "remove_chips", user_id, destination_id, amount)
    /\ UNCHANGED granted

GrantLoan ==
  \E user_id \in Users, amount \in LedgerAmounts :
    /\ LedgerStep(grant_loan(data, user_id, amount),
                  None, "grant_loan", user_id, CASINO_POOL_ID, amount)
    /\ UNCHANGED granted

RepayLoan ==
  \E user_id \in Users, amount \in LedgerAmounts :
    /\ LedgerStep(repay_loan(data, user_id, amount),
                  None, "repay_loan", user_id, CASINO_POOL_ID, amount)
    /\ UNCHANGED granted

InitLedgerSpec ==
  InitTable /\ NoDeal /\ NoEvaluation /\ InitLedger /\ NoStore /\ NoBlackjack


(* ------------------- several TokenManager objects, one file -------------- *)
\* The process holds the module singleton token_manager
\* (token_manager.py:181) and the TokenManager() objects that other cogs
\* build for themselves (token_commands.py:9).  Each object reads the chips
\* file once, in __init__ (_load_data), keeps its own dictionary self.data
\* and writes that whole dictionary to the file at the end of every mutating
\* method (_save_data).  `managers` maps each object built so far to its
\* dictionary and `file` is the content of the chips file.  A method has no
\* await in it, so it runs from its first line to its last without another
\* handler in between: one action is one whole method call.  `reference` is
\* the dictionary one ledger would hold had it made all the calls itself.

ManagerNames == <<"token_manager", "TokenCommands.token_manager">>
MaxStoreOps == 3       \* mutating calls made on the ledger objects
StoreUsers == {"user1", "user2"}
StoreAmounts == {500, 1000}

StoreCall(n, via, op, user, source, amount, used) ==
  [n |-> n, via |-> via, op |-> op, user |-> user, source |-> source,
   amount |-> amount, used |-> used]

\* _load_data followed by _ensure_casino_pool: the dictionary a new object
\* starts with, and the file after its construction.
load_data(f) ==
  IF CASINO_POOL_ID \in DOMAIN f THEN f
  ELSE [a \in DOMAIN f \cup {CASINO_POOL_ID} |->
          IF a = CASINO_POOL_ID
          THEN [chips |-> INITIAL_POOL_BALANCE, loan |-> 0] ELSE f[a]]

\* The import of token_manager builds the singleton over an empty store.
InitStore ==
  /\ managers = [i \in {ManagerNames[1]} |-> load_data(<<>>)]
  /\ file = load_data(<<>>)
  /\ reference = load_data(<<>>)
  /\ store_last = StoreCall(0, None, "init", None, None, 0, {})

\* A cog builds its own TokenManager(): it reads the file as it is now.
NewTokenManager ==
  \E i \in 2..Len(ManagerNames) :
    /\ ManagerNames[i] \notin DOMAIN managers
    /\ managers' = [m \in DOMAIN managers \cup {ManagerNames[i]} |->
                      IF m = ManagerNames[i] THEN load_data(file)
                      ELSE managers[m]]
    /\ file' = load_data(file)
    /\ UNCHANGED <<reference, store_last>>
    /\ UNCHANGED <<pokerVars, dealVars, evalVars, ledgerVars, seatVars, betVars>>

\* One mutating call made on the object `via`: its dictionary changes and,
\* when the method reaches its _save_data, the file becomes that dictionary.
StoreStep(via, r, ref, op, user, source, amount) ==
  /\ store_last.n < MaxStoreOps
  /\ managers' = [managers EXCEPT ![via] = r.data]
  /\ file' = IF r.ok THEN r.data ELSE file
  /\ reference' = ref.data
  /\ store_last' = StoreCall(store_last.n + 1, via, op, user, source, amount,
                             store_last.used \cup {via})
  /\ UNCHANGED <<pokerVars, dealVars, evalVars, ledgerVars, seatVars, betVars>>

\* add_chips made on one of the objects: a grant (no source) or a payout
\* from the pool.
StoreAddChips ==
  \E via \in DOMAIN managers, user_id \in StoreUsers,
     amount \in StoreAmounts, source_id \in {None, CASINO_POOL_ID} :
    StoreStep(via,
              add_chips(managers[via], user_id, amount, source_id),
              add_chips(reference, user_id, amount, source_id),
              "add_chips", user_id, source_id, amount)

\* remove_chips made on one of the objects: a wager paid to the pool.
StoreRemoveChips ==
  \E via \in DOMAIN managers, user_id \in StoreUsers, amount \in StoreAmounts :
    StoreStep(via,
              remove_chips(managers[via], user_id, amount, CASINO_POOL_ID),
              remove_chips(reference, user_id, amount, CASINO_POOL_ID),
              "remove_chips", user_id, CASINO_POOL_ID, amount)

InitStoreSpec ==
  InitTable /\ NoDeal /\ NoEvaluation /\ NoLedger /\ InitStore /\ NoBlackjack


(* ----------------------- BlackjackTable (src/main.py) ------------------- *)
\* The tables of active_tables, each with its set `players`, and the module
\* dictionary player_to_table (user id -> table id).  A call is
\* BlackjackTable.add_player or remove_player on one table, or the
\* leave-table command, which removes the caller from the table recorded for
\* them and deletes the record.

NumTables == 2         \* tables opened
NumTablePlayers == 2   \* user ids that join and leave
MaxTableCalls == 4     \* calls made on the tables
TableIds == 1..NumTables
TablePlayerIds == 1..NumTablePlayers

TableCall(n, op, table_id, player_id, result) ==
  [n |-> n, op |-> op, table_id |-> table_id, player_id |-> player_id,
   result |-> result]

\* The tables were just created (BlackjackTable.__init__) and nobody has
\* joined.
InitTables ==
  /\ table_players = [t \in TableIds |-> {}]
  /\ player_to_table = <<>>
  /\ table_last = TableCall(0, "init", 0, 0, TRUE)

\* Fault: add_player looks at its own table only.
already_at_table_this_one(seats, records, table_id, player_id) ==
  player_id \in seats[table_id]
\* Line 252: `if player_id in player_to_table`.
already_at_table(seats, records, table_id, player_id) ==
  player_id \in DOMAIN records

\* BlackjackTable.add_player on the table table_id.
table_add_player(seats, records, table_id, player_id) ==
  IF already_at_table(seats, records, table_id, player_id)
  THEN [seats |-> seats, records |-> records, result |-> FALSE]
  ELSE [seats |-> [seats EXCEPT ![table_id] = @ \cup {player_id}],
        records |-> [p \in DOMAIN records \cup {player_id} |->
                       IF p = player_id THEN table_id ELSE records[p]],
        result |-> TRUE]

\* BlackjackTable.remove_player on the table table_id.
table_remove_player(seats, records, table_id, player_id) ==
  IF player_id \in seats[table_id]
  THEN [seats |-> [seats EXCEPT ![table_id] = @ \ {player_id}],
        records |-> records, result |-> TRUE]
  ELSE [seats |-> seats, records |-> records, result |-> FALSE]

TableStep(r, op, table_id, player_id) ==
  /\ table_last.n < MaxTableCalls
  /\ table_players' = r.seats
  /\ player_to_table' = r.records
  /\ table_last' = TableCall(table_last.n + 1, op, table_id, player_id, r.result)
  /\ UNCHANGED betVars
  /\ UNCHANGED <<pokerVars, dealVars, evalVars, ledgerVars, storeVars>>

TableAddPlayer ==
  \E table_id \in TableIds, player_id \in TablePlayerIds :
    TableStep(table_add_player(table_players, player_to_table, table_id,
                               player_id),
              "add_player", table_id, player_id)

TableRemovePlayer ==
  \E table_id \in TableIds, player_id \in TablePlayerIds :
    TableStep(table_remove_player(table_players, player_to_table, table_id,
                                  player_id),
              "remove_player", table_id, player_id)

\* The leave-table command (lines 529-544): remove_player on the recorded
\* table and, when it returns True, `del player_to_table[...]`.
TableLeave ==
  \E player_id \in TablePlayerIds :
    /\ player_id \in DOMAIN player_to_table
    /\ LET table_id == player_to_table[player_id]
           r == table_remove_player(table_players, player_to_table, table_id,
                                    player_id)
           records == IF r.result
                      THEN [p \in DOMAIN r.records \ {player_id} |-> r.records[p]]
                      ELSE r.records
       IN TableStep([seats |-> r.seats, records |-> records,
                     result |-> r.result],
                    "leave_table", table_id, player_id)

InitTablesSpec ==
  /\ InitTable /\ NoDeal /\ NoEvaluation /\ NoLedger /\ NoStore
  /\ InitTables
  /\ table_state = "" /\ bettors = <<>> /\ dealer_cards = 0
  /\ handler = <<>> /\ game_starts = 0


(* ------------------- one blackjack betting round (bjbet) ----------------- *)
\* BlackjackCog.bjbet (blackjack_cog.py:389-418) and _start_game_logic
\* (489-498) on one table whose betting is open.  A command handler is a
\* coroutine: it runs alone up to its next await, where the handlers of other
\* players' commands may run.  bjbet finds the table without suspending
\* (_get_table_from_context returns before its only await when the table
\* exists), so its checks, the bet and the debit are one step; it then
\* suspends in ctx.send (line 412), after the all-have-bet test in ctx.send
\* (line 416), and inside _start_game_logic in update_lobby_embed (line 492),
\* after which the deal loop (495-498) runs without suspending.  Chips are
\* the singleton token_manager's, the ledger of the section above.
NumBettors == 2        \* players seated at the blackjack table
BetPlayers == {LedgerUsers[i] : i \in 1..Min(NumBettors, Len(LedgerUsers))}
\* amounts given to !bjbet: two a fresh account can pay and one it cannot
BetAmounts == {100, default_chips, 1500}

\* table.state after start_betting (line 386), Player.has_bet, and the bet
\* and cards of the player's current hand; every handler idle.
InitBets ==
  /\ table_state = "betting"
  /\ bettors = [p \in BetPlayers |-> [has_bet |-> FALSE, bet |-> 0, cards |-> 0]]
  /\ dealer_cards = 0
  /\ handler = [p \in BetPlayers |-> [pc |-> "idle", reply |-> None]]
  /\ game_starts = 0

\* Lines 394-408: why bjbet returns early, None if it does not.
bet_refusal(p, amount) ==
  IF table_state # "betting" THEN "Betting is not open right now."
  ELSE IF bettors[p].has_bet THEN "You have already placed your bet."
  ELSE IF get_chips(data, p) < amount THEN "You don't have enough tokens for that bet."
  ELSE None

\* Lines 391-412 with the bet accepted: the bet is recorded and debited, and
\* the handler suspends in ctx.send.
BjbetPlaced ==
  \E p \in BetPlayers, amount \in BetAmounts :
    /\ handler[p].pc = "idle"
    /\ bet_refusal(p, amount) = None
    /\ bettors' = [bettors EXCEPT ![p].bet = amount, ![p].has_bet = TRUE]
    /\ data' = remove_chips(data, p, amount, CASINO_POOL_ID).data
    /\ handler' = [handler EXCEPT ![p] = [pc |-> "has_bet_sent", reply |-> "has bet"]]
    /\ UNCHANGED <<table_state, dealer_cards, game_starts, granted, ledger_last>>
    /\ UNCHANGED <<pokerVars, dealVars, evalVars, storeVars, seatVars>>

\* Lines 391-408 with an early return: the player is told why, nothing else
\* changes.  The handler that refuses is a second command of a player whose
\* first may still be suspended.
BjbetRefused ==
  \E p \in BetPlayers, amount \in BetAmounts :
    /\ bet_refusal(p, amount) # None
    /\ handler[p].reply # bet_refusal(p, amount)
    /\ data' = get_user_data(data, p)
    /\ handler' = [handler EXCEPT ![p].reply = bet_refusal(p, amount)]
    /\ UNCHANGED <<table_state, bettors, dealer_cards, game_starts, granted, ledger_last>>
    /\ UNCHANGED <<pokerVars, dealVars, evalVars, storeVars, seatVars>>

\* Lines 415-416: the handler resumes after its message was sent and tests
\* whether everybody has bet; if so it suspends in the next ctx.send.
BjbetAllBetTest ==
  \E p \in BetPlayers :
    /\ handler[p].pc = "has_bet_sent"
    /\ handler' = [handler EXCEPT ![p].pc =
                     IF \A q \in BetPlayers : bettors[q].has_bet
                     THEN "starting_sent" ELSE "done"]
    /\ UNCHANGED <<table_state, bettors, dealer_cards, game_starts, ledgerVars>>
    /\ UNCHANGED <<pokerVars, dealVars, evalVars, storeVars, seatVars>>

\* Lines 417 and 491-492: _start_game_logic is entered, sets the state and
\* suspends in update_lobby_embed.
StartGameLogic ==
  \E p \in BetPlayers :
    /\ handler[p].pc = "starting_sent"
    /\ table_state' = "playing"
    /\ game_starts' = game_starts + 1
    /\ handler' = [handler EXCEPT ![p].pc = "lobby_update"]
    /\ UNCHANGED <<bettors, dealer_cards, ledgerVars>>
    /\ UNCHANGED <<pokerVars, dealVars, evalVars, storeVars, seatVars>>

\* Lines 495-498: two rounds of one card to every player and one to the
\* dealer.
deal_initial(bs) == [p \in DOMAIN bs |-> [bs[p] EXCEPT !.cards = @ + 2]]

DealInitialCards ==
  \E p \in BetPlayers :
    /\ handler[p].pc = "lobby_update"
    /\ bettors' = deal_initial(bettors)
    /\ dealer_cards' = dealer_cards + 2
    /\ handler' = [handler EXCEPT ![p].pc = "done"]
    /\ UNCHANGED <<table_state, game_starts, ledgerVars>>
    /\ UNCHANGED <<pokerVars, dealVars, evalVars, storeVars, seatVars>>

InitBetsSpec ==
  /\ InitTable /\ NoDeal /\ NoEvaluation /\ InitLedger /\ NoStore
  /\ table_players = <<>> /\ player_to_table = <<>> /\ table_last = <<>>
  /\ InitBets



(* ------------------------------------------------------------------------ *)
(* The claims.                                                              *)
(* ------------------------------------------------------------------------ *)
HandEndedNow == state = "ended" /\ last.op = "player_action"

\* C1: pot conservation - when a hand has ended, the chips of the seated
\* players sum to what they summed to before start_game (chips_before follows
\* the stacks that sat down or left since); no chip is lost at a split pot.
C1_PotConservation == state = "ended" => SumChips(players) = chips_before

\* C2: side-pot isolation - at showdown no non-folded player p is awarded more
\* than the sum over all players q of min(q.total_bet, p.total_bet).
C2_SidePotIsolation ==
  (HandEndedNow /\ payout.kind = "showdown") =>
    \A p \in Active(players) :
      payout.amounts[p] <=
        SumSeq([q \in Seats(players) |->
                  Min(players[q].total_bet, players[p].total_bet)])

\* C3: betting-round completion - when an accepted player_action makes the
\* table leave the betting round with at least two non-folded players, every
\* non-folded player who is not all-in and still has chips has acted and has a
\* current_bet equal to the table's current_bet at the moment the round closes
\* (the table right after the action's own branch, before the street is dealt).
C3_RoundCompletion ==
  [][(last'.op = "player_action" /\ last'.result # "rejected" /\ state' # state) =>
       LET m == apply_action(Tbl, last'.action, last'.amount)
       IN Cardinality(Active(m.players)) >= 2 =>
            \A i \in Active(m.players) :
              (~m.players[i].all_in /\ m.players[i].chips > 0) =>
                (m.players[i].acted /\ m.players[i].current_bet = m.current_bet)]_vars

\* C4: re-opening on a raise - after an accepted raise that is not capped by
\* the stack and is at least a full raise over the bet it faces (so it meets
\* the minimum whatever the last increment was), every other non-folded,
\* non-all-in player who still has chips has acted = FALSE.
C4_RaiseReopens ==
  [][(/\ last'.op = "player_action" /\ last'.result = "ok" /\ last'.action = "raise"
      /\ last'.amount <= players[current_player + 1].chips
                         + players[current_player + 1].current_bet
      /\ last'.amount >= current_bet + current_bet
      /\ last'.amount >= current_bet + big_blind) =>
       \A j \in Seats(players') :
         (/\ j # current_player + 1
          /\ ~players'[j].folded /\ ~players'[j].all_in /\ players'[j].chips > 0) =>
           ~players'[j].acted]_vars

\* C5: while a hand is in progress the pot equals the sum of total_bet over
\* all seated players.
C5_PotEqualsTotalBets ==
  (game_active /\ state \in Betting) => pot = SumSeq(TotalBets(players))

C5_Witness ==
  /\ game_active /\ state = "flop" /\ pot > small_blind + big_blind
  /\ last.op = "player_action" /\ last.action = "call"

\* C6: turn enforcement - a player_action that is carried out was called by
\* the player at the current turn index of an active hand, and in an active
\* hand every other id is refused.
C6_TurnEnforcement ==
  [][(last'.op = "player_action" /\ last'.result # "rejected" =>
         /\ game_active /\ state # "ended"
         /\ current_player + 1 \in Seats(players)
         /\ players[current_player + 1].user_id = last'.id)
     /\ (game_active /\ state # "ended" /\ current_player + 1 \in Seats(players) =>
           \A uid \in Ids, a \in Actions, amt \in Amounts :
             uid # players[current_player + 1].user_id =>
               refusal(Tbl, uid, a, amt) # "")]_vars

C6_Witness ==
  /\ last.op = "player_action" /\ last.result = "ok"
  /\ Len(players) = 3 /\ state = "flop" /\ last.id # players[1].user_id

\* C7: a rejected player_action leaves the whole table unchanged and returns
\* a reason; it does not raise.
C7_RejectedUnchanged ==
  [][(last'.op = "player_action" /\ last'.result = "rejected") =>
       (UNCHANGED tableVars /\ last'.msg # "")]_vars

C7_Witness ==
  /\ last.op = "player_action" /\ last.result = "rejected"
  /\ last.msg = "Cannot check, must call or fold"
  /\ state = "preflop" /\ pot > 0

\* C8: minimum raise - an accepted raise to `amount` that does not commit the
\* whole stack is at least big_blind when the table's current_bet is 0, and at
\* least current_bet + big_blind (the least the last increment can require)
\* when current_bet > 0.
C8_MinimumRaise ==
  [][(last'.op = "player_action" /\ last'.result = "ok" /\ last'.action = "raise") =>
       LET p == players[current_player + 1]
       IN \/ last'.amount >= p.chips + p.current_bet
          \/ current_bet = 0 /\ last'.amount >= big_blind
          \/ current_bet > 0 /\ last'.amount >= current_bet + big_blind]_vars

\* C9: short all-in raise - whenever the player to act can raise all-in to a
\* total above the current bet, that raise is accepted, also when the total
\* is below the minimum raise.
C9_ShortAllInAccepted ==
  (game_active /\ state \in Betting /\ current_player + 1 \in Seats(players)) =>
    LET p == players[current_player + 1]
    IN (CanAct(p) /\ p.chips + p.current_bet > current_bet) =>
         refusal(Tbl, p.user_id, "raise", p.chips + p.current_bet) = ""

\* C10: call - an accepted call moves exactly
\* x = min(table.current_bet - player.current_bet, player.chips).  Right after
\* the call's own branch (m) the caller's chips are down by x, the caller's
\* current_bet and total_bet and the pot are up by x, the caller is all-in
\* exactly when no chips are left, and no other player has changed.  In the
\* state the handler leaves: the caller's total_bet has grown by x and nobody
\* else's has changed; every stack is its old value, less x for the caller,
\* plus what the hand paid if the call ended it; and while the round stays
\* open the caller's current_bet and the pot have grown by x and the other
\* players' bets are as before.
C10_CallMovesExactly ==
  [][(last'.op = "player_action" /\ last'.result = "ok" /\ last'.action = "call") =>
       LET i == current_player + 1
           x == Min(current_bet - players[i].current_bet, players[i].chips)
           paid == [j \in Seats(players) |->
                      IF payout'.kind = "none" THEN 0 ELSE payout'.amounts[j]]
           m == apply_action(Tbl, "call", 0)
       IN /\ m.players[i].chips = players[i].chips - x
          /\ m.players[i].current_bet = players[i].current_bet + x
          /\ m.players[i].total_bet = players[i].total_bet + x
          /\ m.pot = pot + x
          /\ m.players[i].all_in = (players[i].chips - x = 0)
          /\ \A j \in Seats(players) : j # i => m.players[j] = players[j]
          /\ Len(players') = Len(players)
          /\ \A j \in Seats(players) :
               /\ players'[j].total_bet =
                    players[j].total_bet + (IF j = i THEN x ELSE 0)
               /\ players'[j].chips =
                    players[j].chips - (IF j = i THEN x ELSE 0) + paid[j]
          /\ players'[i].all_in = (players[i].chips - x = 0)
          /\ state' = state =>
               /\ pot' = pot + x
               /\ \A j \in Seats(players) :
                    players'[j].current_bet =
                      players[j].current_bet + (IF j = i THEN x ELSE 0)]_vars

C10_Witness ==
  /\ last.op = "player_action" /\ last.result = "ok" /\ last.action = "call"
  /\ state = "preflop" /\ pot = small_blind + 2 * big_blind

\* The seats dealt into the hand in progress: start_game deals two cards to
\* every seat, a seat taken since then holds none.
Dealt(ps) == Cardinality({i \in Seats(ps) : ps[i].cards = 2})

\* The seat (1-based) that posted the big blind of the hand in progress.
BigBlindSeat ==
  (IF Dealt(players) = 2 THEN (dealer_position + 1) % 2
   ELSE (dealer_position + 2) % Dealt(players)) + 1

\* C11: big-blind option - when an accepted player_action makes the table
\* leave PREFLOP with at least two non-folded players and no raise above the
\* big blind, the big-blind player, if able to act, has made an accepted
\* action of their own in this round (their acted flag, set only by their
\* own accepted action, is TRUE when the round closes).
C11_BigBlindOption ==
  [][(/\ last'.op = "player_action" /\ last'.result # "rejected"
      /\ state = "preflop" /\ state' # "preflop") =>
       LET m == apply_action(Tbl, last'.action, last'.amount)
       IN (/\ Cardinality(Active(m.players)) >= 2
           /\ m.current_bet <= big_blind
           /\ BigBlindSeat \in Seats(m.players)
           /\ CanAct(m.players[BigBlindSeat])) =>
            m.players[BigBlindSeat].acted]_vars

C11_Witness ==
  /\ state = "flop" /\ game_active /\ Len(players) = 3 /\ pot = 3 * big_blind
  /\ last.op = "player_action" /\ last.result = "ok" /\ last.action = "check"
  /\ last.id = players[BigBlindSeat].user_id

\* C12: turn order - after start_game the first to act is seat
\* (dealer + 3) mod n at a table of n >= 3 and the dealer's own seat at a
\* table of 2; when an accepted action opens FLOP, TURN or RIVER the turn is
\* on the first seat, clockwise from the seat after the dealer, that can act
\* (not folded, not all-in, chips left), every seat before it being unable to.
C12_TurnOrder ==
  [][/\ (last'.op = "start_game" /\ last'.result = "ok") =>
          current_player' = IF Len(players') = 2 THEN dealer_position'
                            ELSE (dealer_position' + 3) % Len(players')
     /\ (/\ last'.op = "player_action" /\ last'.result = "ok"
         /\ state' # state /\ state' \in {"flop", "turn", "river"}) =>
          LET n == Len(players')
              start == (dealer_position' + 1) % n
          IN \E k \in 0..(n - 1) :
               /\ current_player' = (start + k) % n
               /\ CanAct(players'[current_player' + 1])
               /\ \A j \in 0..(k - 1) : ~CanAct(players'[((start + j) % n) + 1])]_vars

\* C13: whenever a hand waits for an action (game_active, state a betting
\* street) the turn index is a seat and the player on it is neither folded
\* nor all-in.
C13_TurnOnActingPlayer ==
  (game_active /\ state \in Betting) =>
    /\ current_player + 1 \in Seats(players)
    /\ ~players[current_player + 1].folded
    /\ ~players[current_player + 1].all_in


\* C14: blind posting - a start_game that is not refused raises no error; the
\* small blind is posted by the seat after the dealer (the dealer's own seat
\* at a table of 2) and the big blind by the next seat; each poster pays
\* min(blind, stack) into the pot and nobody else pays; a poster whose stack
\* is not larger than what they post is marked all-in; the table's
\* current_bet is the big blind (as posted).
C14_BlindPosting ==
  [][(last'.op = "start_game" /\ last'.result # "rejected") =>
       LET n == Len(players)
           sb == (IF n = 2 THEN dealer_position ELSE (dealer_position + 1) % n) + 1
           bb == (IF n = 2 THEN (dealer_position + 1) % n
                  ELSE (dealer_position + 2) % n) + 1
       IN /\ last'.result = "ok"
          /\ sb \in Seats(players) /\ bb \in Seats(players)
          /\ LET sb_amount == Min(small_blind, players[sb].chips)
                 bb_amount == Min(big_blind, players[bb].chips)
                 posted == [i \in Seats(players) |->
                              IF i = sb THEN sb_amount
                              ELSE IF i = bb THEN bb_amount ELSE 0]
             IN /\ Len(players') = n
                /\ \A i \in Seats(players) :
                     /\ players'[i].chips = players[i].chips - posted[i]
                     /\ players'[i].current_bet = posted[i]
                     /\ players'[i].total_bet = posted[i]
                /\ pot' = sb_amount + bb_amount
                /\ current_bet' \in {big_blind, bb_amount}
                /\ \A i \in {sb, bb} :
                     players[i].chips <= posted[i] => players'[i].all_in]_vars

\* C15: short-stacked big blind, heads-up - in a hand dealt to two players
\* whose big blind had less than the big blind (the whole stack is posted:
\* total_bet < big_blind, no chips left), that player is marked all-in and
\* the table never waits for an action from them.
C15_ShortBigBlindHeadsUp ==
  (/\ game_active /\ state \in Betting
   /\ Len(players) = 2 /\ Dealt(players) = 2
   /\ ~players[BigBlindSeat].folded
   /\ players[BigBlindSeat].chips = 0
   /\ players[BigBlindSeat].total_bet < big_blind) =>
    /\ players[BigBlindSeat].all_in
    /\ current_player + 1 # BigBlindSeat


\* C16: fold-out win - when an accepted fold leaves exactly one non-folded
\* player, the same action ends the hand: the state becomes ENDED, no card
\* leaves the deck and the board is as it was, the pot is awarded without a
\* showdown, and the whole pot is added to the remaining player's chips while
\* every other stack stays as it is.
C16_FoldOutWin ==
  [][(/\ last'.op = "player_action" /\ last'.result # "rejected"
      /\ last'.action = "fold"
      /\ Cardinality(Active(players) \ {current_player + 1}) = 1) =>
       LET w == CHOOSE i \in Active(players) \ {current_player + 1} : TRUE
       IN /\ last'.result = "ok"
          /\ state' = "ended" /\ ~game_active'
          /\ community_cards' = community_cards /\ deck' = deck
          /\ payout'.kind = "fold"
          /\ pot' = 0
          /\ Len(players') = Len(players)
          /\ \A j \in Seats(players) :
               players'[j].chips = players[j].chips + (IF j = w THEN pot ELSE 0)]_vars

C16_Witness ==
  /\ state = "ended" /\ last.op = "player_action" /\ last.action = "fold"
  /\ payout.kind = "fold" /\ community_cards = 3 /\ Len(players) = 3
  /\ \E w \in Seats(players) : payout.amounts[w] > small_blind + big_blind


\* C18: automatic run-out - when an accepted action completes the betting
\* round (is_betting_round_complete on the table right after the action's own
\* branch) with at least two non-folded players of whom fewer than two still
\* have chips, the same action deals every remaining street (one burn and the
\* street's cards each), leaving exactly 5 community cards, ends the hand at
\* a showdown, and moves no further chips into the pot: each stack is what
\* it was after the action plus what the showdown paid.
C18_AutomaticRunOut ==
  [][(last'.op = "player_action" /\ last'.result # "rejected") =>
       LET m == apply_action(Tbl, last'.action, last'.amount)
           active == Active(m.players)
           streets_left == IF state = "preflop" THEN 3
                           ELSE IF state = "flop" THEN 2
                           ELSE IF state = "turn" THEN 1 ELSE 0
       IN (/\ is_betting_round_complete(m)
           /\ Cardinality(active) >= 2
           /\ Cardinality({i \in active : m.players[i].chips > 0}) < 2) =>
            /\ last'.result = "ok"
            /\ state' = "ended" /\ ~game_active'
            /\ community_cards' = 5
            /\ deck' = deck - (5 - community_cards) - streets_left
            /\ payout'.kind = "showdown"
            /\ pot' = 0
            /\ Len(players') = Len(players)
            /\ \A j \in Seats(players) :
                 /\ players'[j].chips = m.players[j].chips + payout'.amounts[j]
                 /\ players'[j].total_bet = m.players[j].total_bet]_vars

C18_Witness ==
  /\ state = "ended" /\ payout.kind = "showdown" /\ community_cards = 5
  /\ last.op = "player_action" /\ last.result = "ok" /\ last.action = "call"
  /\ Len(players) = 2
  /\ \A i \in Seats(players) : players[i].all_in /\ players[i].total_bet = MaxBuyIn


\* C19: add_player - a call made while a hand is in progress or at a full
\* table (9 seats) returns False and leaves the table unchanged; a call that
\* returns False changes nothing and is made in a hand or at a table that
\* already seats somebody; a call that returns True appends exactly one new
\* player, with the given chips and an id that was not seated, and changes
\* nothing else.  The seat list never holds more than 9 players or the same
\* id twice.
C19_AddPlayerRules ==
  [][/\ (last'.op = "add_player") =>
          /\ (game_active \/ Len(players) >= MaxSeats) =>
               (last'.result = "rejected" /\ UNCHANGED tableVars)
          /\ last'.result = "rejected" =>
               (UNCHANGED tableVars /\ (game_active \/ Len(players) > 0))
          /\ last'.result = "ok" =>
               /\ players' = Append(players, Player(last'.id, last'.amount))
               /\ \A i \in Seats(players) : players[i].user_id # last'.id
               /\ UNCHANGED <<deck, community_cards, pot, current_bet,
                              dealer_position, current_player, state,
                              game_active>>
     /\ Len(players') <= MaxSeats
     /\ \A i, j \in Seats(players') :
          players'[i].user_id = players'[j].user_id => i = j]_vars


\* C17: street order - table.state changes only along the chain: start_game
\* takes WAITING or ENDED to PREFLOP; an accepted action takes PREFLOP to
\* FLOP (3 community cards), FLOP to TURN (4), TURN to RIVER (5), RIVER to the
\* end of the hand, or a betting street directly to the end of the hand,
\* either on a fold-out or with the board run out to 5 cards and a showdown.
C17_StreetOrder ==
  [][state' # state =>
       \/ /\ last'.op = "start_game"
          /\ state \in {"waiting", "ended"} /\ state' = "preflop"
       \/ /\ last'.op = "player_action"
          /\ \/ state = "preflop" /\ state' = "flop" /\ community_cards' = 3
             \/ state = "flop" /\ state' = "turn" /\ community_cards' = 4
             \/ state = "turn" /\ state' = "river" /\ community_cards' = 5
             \/ /\ state \in Betting /\ state' = "ended"
                /\ \/ payout'.kind = "fold" /\ community_cards' = community_cards
                   \/ payout'.kind = "showdown" /\ community_cards' = 5]_vars

\* C20: start_game - a call made between hands with fewer than two seated
\* players holding chips is refused and leaves the table unchanged; a call
\* that succeeds keeps exactly the seated players who had chips, so nobody
\* with 0 chips is dealt into the hand.
C20_StartNeedsTwoFunded ==
  [][(last'.op = "start_game" /\ ~game_active) =>
       LET funded == {i \in Seats(players) : players[i].chips > 0}
       IN /\ Cardinality(funded) < 2 =>
               (last'.result = "rejected" /\ UNCHANGED tableVars)
          /\ last'.result = "ok" =>
               /\ Len(players') = Cardinality(funded)
               /\ \A j \in Seats(players') : players'[j].cards = 2
               /\ \A j \in Seats(players') : \E i \in funded :
                    players'[j].user_id = players[i].user_id]_vars


\* The table part of a handler's result, in the order of tableVars.
TableOf(t) ==
  <<t.players, t.deck, t.community_cards, t.pot, t.current_bet,
    t.dealer_position, t.current_player, t.state, t.game_active>>

\* C21: leaving mid-hand equals folding - a remove_player of a seated id
\* during an active hand keeps the seat list (length and ids in place); if
\* the leaver was the player to act, the table is left as
\* player_action(id, "fold") would leave it; and whenever the leaver was
\* still in the hand and one non-folded player remains, the hand has ended.
C21_LeaveEqualsFold ==
  [][(/\ last'.op = "remove_player" /\ last'.result = "ok"
      /\ game_active /\ state \in Betting
      /\ Seated(Tbl, last'.id)) =>
       LET i == SeatOf(Tbl, last'.id)
       IN /\ Len(players') = Len(players)
          /\ \A j \in Seats(players) : players'[j].user_id = players[j].user_id
          /\ players'[i].folded
          /\ refusal(Tbl, last'.id, "fold", 0) = "" =>
               \E strength \in Strengths(Tbl, last'.id, "fold", 0) :
                 tableVars' = TableOf(player_action(Tbl, last'.id, "fold", 0, strength))
          /\ (~players[i].folded /\ Cardinality(Active(players')) = 1) =>
               state' = "ended"]_vars


\* C22: every hand that finishes, by showdown or by fold-out, leaves the
\* table in ENDED with no hand active and the dealer button one seat further
\* (modulo the number of seated players) than in the hand just played.
C22_DealerAdvances ==
  [][(state # "ended" /\ state' = "ended") =>
       /\ last'.op = "player_action" /\ last'.result = "ok"
       /\ payout'.kind \in {"fold", "showdown"}
       /\ ~game_active'
       /\ Len(players') = Len(players)
       /\ dealer_position' = (dealer_position + 1) % Len(players)]_vars

C22_Witness ==
  /\ state = "ended" /\ ~game_active /\ hands = 2
  /\ payout.kind = "showdown" /\ dealer_position = 0 /\ Len(players) = 2


RECURSIVE Flatten(_)
Flatten(ss) == IF ss = <<>> THEN <<>> ELSE Head(ss) \o Flatten(Tail(ss))

\* Every card that has left the deck in the hand in progress.
Outstanding == Flatten(hole_cards) \o burned \o board

\* C23: within one hand all cards dealt from the deck (every player's two
\* hole cards, the burn cards, the community cards) are pairwise distinct,
\* none of them is still in the deck, and deal() is never called on an empty
\* deck, at tables of 2 to 9 players.
C23_DistinctCards ==
  /\ \A i, j \in 1..Len(Outstanding) : Outstanding[i] = Outstanding[j] => i = j
  /\ \A i \in 1..Len(Outstanding), k \in 1..Len(cards) : Outstanding[i] # cards[k]
  /\ \A i \in 1..Len(hole_cards) : Len(hole_cards[i]) = 2
  /\ ~deal_error

C23_Witness ==
  /\ Len(hole_cards) = MaxSeats /\ Len(board) = 5 /\ Len(burned) = 3
  /\ Len(cards) = DeckSize - 2 * MaxSeats - 8


\* C24: for 7 distinct cards evaluate_hand returns the value of the best of
\* the 21 five-card subsets, the value of the hand get_best_hand selects.
C24_SevenCardsAsBestFive ==
  (hand_value # <<>> /\ Cardinality(all_cards) = 7) =>
    hand_value = best_hand_value(all_cards)

\* Five cards of suit s with consecutive ranks ending at high (the ace
\* counting as 1 below the two).
SuitedRun(cs, s, high) ==
  \A k \in 0..4 :
    \E c \in cs : c.suit = s /\ c.rank = (IF high - k = 1 THEN 14 ELSE high - k)

\* C25: evaluate_hand returns category 8 (straight flush) only when five
\* cards of one single suit have consecutive ranks, the ace counting high or
\* low.
C25_StraightFlushSameCards ==
  (hand_value # <<>> /\ hand_value[1] = 8) =>
    \E c \in all_cards, high \in 5..14 : SuitedRun(all_cards, c.suit, high)

\* C26: the wheel - the five cards A,2,3,4,5 in suits that are not all equal
\* evaluate to category 4 with tiebreaker <<5>>, and the five cards 2,3,4,5,6
\* in mixed suits to a straight that beats it.
C26_Wheel ==
  (/\ hand_value # <<>> /\ Cardinality(all_cards) = 5
   /\ \E c, e \in all_cards : c.suit # e.suit) =>
    /\ RankSet(all_cards) = {14, 2, 3, 4, 5} => hand_value = <<4, <<5>>>>
    /\ RankSet(all_cards) = {2, 3, 4, 5, 6} =>
         (hand_value[1] = 4 /\ Beats(hand_value, <<4, <<5>>>>))

C26_Witness ==
  /\ hand_value = <<4, <<5>>>> /\ Cardinality(all_cards) = 5
  /\ \E c \in all_cards : c.rank = 14 /\ c.suit = Suits[NumEvalSuits]


\* ---- the ledger ----
\* A ledger call has just been made (the step is one of the ledger's).
LedgerCalled(op) == ledger_last'.n = ledger_last.n + 1 /\ ledger_last'.op = op

\* The balances and loans a reader of the ledger sees (get_chips, get_loan)
\* are the same before and after the step.
LedgerUntouched ==
  \A a \in Accounts :
    /\ get_chips(data', a) = get_chips(data, a)
    /\ get_loan(data', a) = get_loan(data, a)

\* The step moved exactly `amount` from account `from` to account `to` and
\* touched nothing else.
MovedExactly(from, to, amount) ==
  /\ get_chips(data', from) = get_chips(data, from) - amount
  /\ get_chips(data', to) = get_chips(data, to) + amount
  /\ \A a \in Accounts \ {from, to} : get_chips(data', a) = get_chips(data, a)
  /\ \A a \in Accounts : get_loan(data', a) = get_loan(data, a)

\* The step moved `amount` from `from` to `to` and then repaid `r` of the
\* loan of `to` to the pool.
MovedAndRepaid(from, to, amount, r) ==
  LET delta(a) == (IF a = to THEN amount - r ELSE 0)
                  + (IF a = from THEN 0 - amount ELSE 0)
                  + (IF a = CASINO_POOL_ID THEN r ELSE 0)
  IN /\ \A a \in Accounts : get_chips(data', a) = get_chips(data, a) + delta(a)
     /\ get_loan(data', to) = get_loan(data, to) - r
     /\ \A a \in Accounts \ {to} : get_loan(data', a) = get_loan(data, a)

TransferStep(from, to, amount) ==
  IF get_chips(data, from) < amount
  THEN ~ledger_last'.ok /\ LedgerUntouched
  ELSE ledger_last'.ok /\ MovedExactly(from, to, amount)

C27_WitnessRefused ==
  /\ ledger_last.op \in {"add_chips", "remove_chips"} /\ ~ledger_last.ok
  /\ ledger_last.amount > 0


\* C28: after any sequence of add_chips with a source, remove_chips,
\* grant_loan and repay_loan, called with any integer amounts (zero and
\* negative ones included), every account's chips, the pool's included, and
\* every account's loan are at least 0.
C28_NeverNegative ==
  \A a \in DOMAIN data : data[a].chips >= 0 /\ data[a].loan >= 0


RECURSIVE TotalChips(_, _)
\* The chips of the accounts of S, an account not yet created counting with
\* the default stake it is created with.
TotalChips(d, S) ==
  IF S = {} THEN 0
  ELSE LET a == CHOOSE x \in S : TRUE
       IN get_chips(d, a) + TotalChips(d, S \ {a})

RECURSIVE TotalLoans(_, _)
TotalLoans(d, S) ==
  IF S = {} THEN 0
  ELSE LET a == CHOOSE x \in S : TRUE
       IN get_loan(d, a) + TotalLoans(d, S \ {a})

\* The chips in the economy when the ledger is opened.
InitialChips == INITIAL_POOL_BALANCE + Cardinality(Users) * default_chips

LoanWithinCeiling == \A a \in DOMAIN data : data[a].loan <= MAX_LOAN

\* A grant_loan call that must be refused: the amount is not positive, is
\* above the pool's balance, or takes the loan above the ceiling.
MustRefuseLoan(d, user_id, amount) ==
  \/ amount <= 0
  \/ amount > get_pool_balance(d)
  \/ get_loan(d, user_id) + amount > MAX_LOAN

RefusedLoanChangesNothing ==
  (LedgerCalled("grant_loan")
     /\ MustRefuseLoan(data, ledger_last'.user, ledger_last'.amount)) =>
    ~ledger_last'.ok /\ LedgerUntouched

\* C30: after any sequence of ledger operations every account's loan is at
\* most MAX_LOAN, and a grant_loan whose amount is not positive, exceeds the
\* pool balance or would take the loan above the ceiling returns False and
\* changes no balance and no loan.
C30_LoanCeiling ==
  [][LoanWithinCeiling' /\ RefusedLoanChangesNothing]_vars

\* The second half of C30 alone: refused loans change nothing.
C30_RefusedLoans == [][RefusedLoanChangesNothing]_vars

\* The first half of C30 over the calls chip_cog makes: no call but a
\* repay_loan with an amount of 0 or less takes a loan above the ceiling.
C30_CeilingPositiveRepay ==
  [][(LoanWithinCeiling
        /\ ~(LedgerCalled("repay_loan") /\ ledger_last'.amount <= 0))
       => LoanWithinCeiling']_vars


\* C31: a successful grant_loan(a, n), whatever a's state before (with or
\* without a loan), raises a's chips by exactly n, lowers the pool's chips by
\* exactly n and raises a's loan by exactly n.
C31_LoanGrantExact ==
  [][(LedgerCalled("grant_loan") /\ ledger_last'.ok) =>
       LET a == ledger_last'.user
           n == ledger_last'.amount
       IN /\ get_chips(data', a) = get_chips(data, a) + n
          /\ get_pool_balance(data') = get_pool_balance(data) - n
          /\ get_loan(data', a) = get_loan(data, a) + n
    ]_vars


\* The account owes a loan and holds at least 110% of it.
OverThreshold(d, a) ==
  get_loan(d, a) > 0 /\ get_chips(d, a) * 10 >= get_loan(d, a) * 11

\* The chips of account a after `amount` has come from `source` (None for a
\* grant out of nothing) and `repaid` has gone from `user` to the pool.
AfterCredit(a, user, source, amount, repaid) ==
  get_chips(data, a)
    + (IF a = user THEN amount - repaid ELSE 0)
    + (IF a = source THEN 0 - amount ELSE 0)
    + (IF a = CASINO_POOL_ID THEN repaid ELSE 0)

\* C32: when an operation that credits chips to an account returns
\* (add_chips with or without a source, grant_loan), the account does not
\* have both a loan above 0 and chips of at least 110% of it; and when the
\* credit of add_chips takes the balance to the threshold, the whole loan is
\* repaid in that call: the account is debited and the pool credited by
\* exactly the loan, and the loan is 0.
C32_AutomaticRepayment ==
  [][/\ (ledger_last'.n = ledger_last.n + 1 /\ ledger_last'.ok
           /\ ledger_last'.op \in {"add_chips", "grant", "grant_loan"})
          => ~OverThreshold(data', ledger_last'.user)
     /\ (ledger_last'.n = ledger_last.n + 1 /\ ledger_last'.ok
           /\ ledger_last'.op \in {"add_chips", "grant"})
          => LET user == ledger_last'.user
                 source == ledger_last'.other
                 amount == ledger_last'.amount
                 loan == get_loan(data, user)
             IN (loan > 0 /\ (get_chips(data, user) + amount) * 10 >= loan * 11)
                  => /\ get_loan(data', user) = 0
                     /\ \A a \in Accounts :
                          get_chips(data', a)
                            = AfterCredit(a, user, source, amount, loan)
    ]_vars

\* C32 for add_chips alone, when it returns: the credited account is not at
\* or over the 110% of its loan.
C32_AddChipsRepays ==
  [][(ledger_last'.n = ledger_last.n + 1 /\ ledger_last'.ok
        /\ ledger_last'.op \in {"add_chips", "grant"})
       => ~OverThreshold(data', ledger_last'.user)]_vars


\* C33: repay_loan(a, n) never repays more than the debt.  When a has no
\* loan or n is more than a's chips, the call returns False and changes
\* nothing; otherwise it succeeds, a's loan and a's chips go down by exactly
\* min(n, loan), the pool's chips go up by the same amount, nothing else
\* changes and the loan does not become negative.
C33_RepayCapped ==
  [][LedgerCalled("repay_loan") =>
       LET a == ledger_last'.user
           n == ledger_last'.amount
           loan == get_loan(data, a)
           paid == IF n < loan THEN n ELSE loan
       IN IF loan <= 0 \/ n > get_chips(data, a)
          THEN ~ledger_last'.ok /\ LedgerUntouched
          ELSE /\ ledger_last'.ok
               /\ get_loan(data', a) = loan - paid
               /\ get_loan(data', a) >= 0
               /\ get_chips(data', a) = get_chips(data, a) - paid
               /\ get_pool_balance(data') = get_pool_balance(data) + paid
               /\ \A b \in Accounts \ {a, CASINO_POOL_ID} :
                    get_chips(data', b) = get_chips(data, b)
               /\ \A b \in Accounts \ {a} : get_loan(data', b) = get_loan(data, b)
    ]_vars

\* A repayment of 1000 has just cleared the loan; borrower and pool are back
\* at their opening balances.
C33_Witness ==
  /\ ledger_last.op = "repay_loan" /\ ledger_last.ok
  /\ ledger_last.amount = 1000
  /\ get_loan(data, ledger_last.user) = 0
  /\ get_chips(data, ledger_last.user) = default_chips
  /\ get_pool_balance(data) = INITIAL_POOL_BALANCE

\* A repayment refused: the caller has no loan, or not the chips.
C33_WitnessRefused ==
  /\ ledger_last.op = "repay_loan" /\ ~ledger_last.ok /\ ledger_last.amount > 0


\* ---- the ledger objects and their file ----
\* The file holds, for every account, the balance that all the calls made so
\* far add up to.
FileReflectsAll ==
  \A a \in StoreUsers \cup {CASINO_POOL_ID} :
    get_chips(file, a) = get_chips(reference, a)

\* C34: mutating ledger calls made by different handlers, also through
\* different TokenManager objects over the same file, never lose an update:
\* once the calls have returned, the stored balance of every account
\* reflects all of them.
C34_NoLostUpdate == FileReflectsAll

\* C34 for the handlers that share one object (the cogs that import the
\* singleton): as long as one object alone has made the calls, no update is
\* lost.
C34_OneObjectKeepsAll ==
  Cardinality(store_last.used) <= 1 => FileReflectsAll


\* ---- the blackjack tables ----
\* The tables whose player set holds p.
TablesOf(seats, p) == {t \in TableIds : p \in seats[t]}

\* C35: after any sequence of add_player and remove_player calls on the
\* tables, a player id is in the player set of at most one table; and
\* add_player(p) returns False and adds nothing while p is recorded at a
\* table (in player_to_table), and returns True, adds p to the table's set
\* and records p for it otherwise.
C35_OneTablePerPlayer ==
  [][/\ \A p \in TablePlayerIds : Cardinality(TablesOf(table_players', p)) <= 1
     /\ (table_last'.n = table_last.n + 1 /\ table_last'.op = "add_player") =>
          LET t == table_last'.table_id
              p == table_last'.player_id
          IN IF p \in DOMAIN player_to_table
             THEN /\ ~table_last'.result
                  /\ table_players' = table_players
                  /\ player_to_table' = player_to_table
             ELSE /\ table_last'.result
                  /\ table_players' = [table_players EXCEPT ![t] = @ \cup {p}]
                  /\ p \in DOMAIN player_to_table' /\ player_to_table'[p] = t
    ]_vars

\* A player sitting at one table has just been refused at another.
C35_Witness ==
  /\ table_last.op = "add_player" /\ ~table_last.result
  /\ \E t \in TableIds \ {table_last.table_id} :
       table_last.player_id \in table_players[t]


\* C36: in a betting round chips only move from the acting player's stack
\* into the pot.  In the call's or raise's own branch (m), whatever the
\* amount: no player's chips grow, the pot does not shrink, no player's
\* current_bet or total_bet shrinks, and every player's chips stay >= 0; also
\* when a short big blind has left the table's current_bet below another
\* player's posted bet.
C36_ChipsOnlyIntoPot ==
  [][(last'.op = "player_action" /\ last'.result = "ok"
        /\ last'.action \in {"call", "raise"}) =>
       LET m == apply_action(Tbl, last'.action, last'.amount)
       IN /\ m.pot >= pot
          /\ \A j \in Seats(players) :
               /\ m.players[j].chips <= players[j].chips
               /\ m.players[j].chips >= 0
               /\ m.players[j].current_bet >= players[j].current_bet
               /\ m.players[j].total_bet >= players[j].total_bet]_vars


\* C37: a start_game made while a hand is in progress (preflop, flop, turn
\* or river) discards no chips: the players' chips plus the pot are the same
\* after the call as before it.
C37_RestartKeepsChips ==
  [][(last'.op = "start_game" /\ game_active /\ state \in Betting) =>
       SumChips(players') + pot' = SumChips(players) + pot]_vars


\* C38: whenever a hand starts, dealer_position and the small-blind,
\* big-blind and first-to-act seats derived from it are indices of the seat
\* list as it is now, also when players have left between two hands, and
\* start_game does not index past the end of the list.
C38_SeatIndicesValid ==
  [][(last'.op = "start_game" /\ start_game_ok(Tbl)) =>
       /\ dealer_position < Len(players)
       /\ sb_pos(Tbl) < Len(players)
       /\ bb_pos(Tbl) < Len(players)
       /\ (dealer_position + 3) % Len(players) < Len(players)
       /\ last'.result = "ok"]_vars

\* C38 without the button itself: the seats start_game indexes (small blind,
\* big blind, first to act) at a table of three or more.
C38_BlindSeatsValidFromThree ==
  [][(last'.op = "start_game" /\ Len(players) >= 3) =>
       /\ sb_pos(Tbl) < Len(players)
       /\ bb_pos(Tbl) < Len(players)
       /\ last'.result = "ok"]_vars


\* The number of community cards each street shows.
StreetCards ==
  /\ state = "preflop" => community_cards = 0
  /\ state = "flop" => community_cards = 3
  /\ state = "turn" => community_cards = 4
  /\ state = "river" => community_cards = 5
  /\ community_cards <= 5

\* C39: the community cards match the street (0 in PREFLOP, 3 in FLOP, 4 in
\* TURN, 5 in RIVER, never more than 5), and every player dealt into the hand
\* who has not folded holds exactly 2 hole cards while the hand is in
\* progress: start_game deals 2 to every seat, and no step of the running hand
\* changes the hole cards of a seat that has not folded.
C39_CardsMatchStreet ==
  [][/\ StreetCards'
     /\ (last'.op = "start_game" /\ last'.result = "ok") =>
          \A j \in Seats(players') : players'[j].cards = 2
     /\ (last'.op # "start_game" /\ game_active /\ state \in Betting
           /\ game_active' /\ state' \in Betting) =>
          \A j \in Seats(players) :
            ~players'[j].folded => players'[j].cards = players[j].cards]_vars

\* C39 as a state predicate: in a running betting round every seat that has
\* not folded holds 2 hole cards, or none if it sat down after the deal.
C39_HoleCards ==
  (game_active /\ state \in Betting) =>
    \A j \in Seats(players) :
      ~players[j].folded => players[j].cards \in {0, 2}

\* The river is reached with 5 community cards, a player still in the hand
\* with 2 hole cards, and a seat taken after the deal with none.
C39_Witness ==
  /\ game_active /\ state = "river" /\ community_cards = 5
  /\ \E j \in Seats(players) : ~players[j].folded /\ players[j].cards = 2
  /\ \E j \in Seats(players) : players[j].cards = 0


\* What each player has paid for the round: the bet, once.
DebitedOnce ==
  \A p \in BetPlayers :
    get_chips(data, p) = default_chips - (IF bettors[p].has_bet THEN bettors[p].bet ELSE 0)

\* C40: in a betting round the game is started at most once however the
\* bjbet handlers interleave at their awaits, so each player and the dealer
\* receive exactly 2 initial cards, and each player's bet is debited exactly
\* once.
C40_StartedOnce ==
  /\ game_starts <= 1
  /\ dealer_cards \in {0, 2}
  /\ \A p \in BetPlayers : bettors[p].cards \in {0, 2}
  /\ DebitedOnce

\* C40, the debit alone: chips leave a player's account once per round, and
\* arrive in the pool.
C40_BetDebitedOnce ==
  /\ DebitedOnce
  /\ get_pool_balance(data) + TotalChips(data, BetPlayers) =
       INITIAL_POOL_BALANCE + default_chips * Cardinality(BetPlayers)

\* Everybody has bet, the game was started and the cards were dealt.
C40_Dealt ==
  /\ table_state = "playing" /\ game_starts >= 1 /\ dealer_cards >= 2
  /\ \A p \in BetPlayers : bettors[p].has_bet /\ handler[p].pc = "done"


Next == AddPlayer \/ RemovePlayer \/ StartGame \/ PlayerAction

Spec == Init /\ [][Next]_vars

NextRematch ==
  join_table \/ leave_table \/ start_game_button \/ handle_player_action

SpecRematch == Init /\ [][NextRematch]_vars

NextDeck == DeckStartGame \/ DeckDealStreet

SpecDeck == Init /\ [][NextDeck]_vars

NextEval == Evaluate

SpecEval == InitEval /\ [][NextEval]_vars

NextLedger == AddChips \/ GrantChips \/ RemoveChips \/ GrantLoan \/ RepayLoan

SpecLedger == InitLedgerSpec /\ [][NextLedger]_vars

NextControlled == AddChips \/ RemoveChips \/ GrantLoan \/ RepayLoan

SpecControlled == InitLedgerSpec /\ [][NextControlled]_vars

NextStore == NewTokenManager \/ StoreAddChips \/ StoreRemoveChips

SpecStore == InitStoreSpec /\ [][NextStore]_vars

NextTables == TableAddPlayer \/ TableRemovePlayer \/ TableLeave

SpecTables == InitTablesSpec /\ [][NextTables]_vars

NextButton == ButtonJoin \/ ButtonLeave \/ ButtonStart \/ ButtonFold

SpecButton == Init /\ [][NextButton]_vars

NextBets ==
  \/ BjbetPlaced \/ BjbetRefused \/ BjbetAllBetTest
  \/ StartGameLogic \/ DealInitialCards

SpecBets == InitBetsSpec /\ [][NextBets]_vars

====
